---- MODULE Spec2Model ----
(***************************************************************************)
(* The user-interactive auth handler of synapse/handlers/auth.py           *)
(* (AuthHandler): the session store, check_auth, add_oob_auth, the stage   *)
(* checkers and validate_login, as a state machine.                        *)
(*                                                                         *)
(* Python values: a dict is a function from its keys (strings) to its      *)
(* values, the empty dict is <<>>; None is the string "None" where a       *)
(* string is expected and the empty tuple where a dict or a hash is        *)
(* expected (both are falsy, as in Python); a nullable request body is a   *)
(* tuple of length 0 (null) or 1 (the dict).                               *)
(***************************************************************************)
EXTENDS Integers, Sequences, FiniteSets, TLC

VARIABLES
    now,                 \* hs.get_clock().time_msec()
    sessions,            \* self.sessions: the ExpiringCache, id -> [time, value]
    heap,                \* the session dict objects, by reference
    calls,               \* per request slot: the position of the handler running in it
    returned,            \* what the last finished handler gave its caller
    password_enabled,    \* hs.config.password_enabled
    password_providers,  \* self.password_providers
    users,               \* the store's users: stored user id -> password hash
    access_tokens,       \* the store's access tokens: token -> [user_id, device_id]
    devices,             \* the store's device records: <<user id, device id>>
    pushers,             \* the pusher pool: <<user id, access token id>>
    logged_out,          \* the on_logged_out calls the providers have received
    minted               \* the tokens the macaroon generator has returned

store_vars == <<access_tokens, devices, pushers, logged_out, minted>>

vars == <<now, sessions, heap, calls, returned,
          password_enabled, password_providers, users, store_vars>>

-----------------------------------------------------------------------------
(* Bounds of the model *)

\* The clock advances in steps of TICK_MS, MaxTicks times at most.
MaxTicks == 3
TICK_MS == 24 * 60 * 60 * 1000

\* In the specifications of the tokens the clock advances by minutes,
\* MaxMinutes times at most, and the generator returns MaxMinted tokens at most.
MaxMinutes == 3
MINUTE_MS == 60 * 1000
MaxMinted == 3

-----------------------------------------------------------------------------
(* Python dicts *)

None == "None"
EmptyDict == <<>>
Has(d, k) == k \in DOMAIN d
Put(d, k, v) == [x \in DOMAIN d \cup {k} |-> IF x = k THEN v ELSE d[x]]
Del(d, k) == [x \in DOMAIN d \ {k} |-> d[x]]
Update(d, e) == [x \in DOMAIN d \cup DOMAIN e |-> IF x \in DOMAIN e THEN e[x] ELSE d[x]]
Keys(d) == DOMAIN d
Range(s) == {s[i] : i \in DOMAIN s}

-----------------------------------------------------------------------------
(* synapse.api.constants.LoginType and synapse.api.errors *)

PASSWORD == "m.login.password"
RECAPTCHA == "m.login.recaptcha"
EMAIL_IDENTITY == "m.login.email.identity"
MSISDN == "m.login.msisdn"
DUMMY == "m.login.dummy"

UNRECOGNIZED == "M_UNRECOGNIZED"
MISSING_PARAM == "M_MISSING_PARAM"
CAPTCHA_NEEDED == "M_CAPTCHA_NEEDED"
UNAUTHORIZED == "M_UNAUTHORIZED"
FORBIDDEN == "M_FORBIDDEN"
UNKNOWN == "M_UNKNOWN"

\* An exception object; LoginError is a subclass of SynapseError.
LoginError(code, msg, errcode) ==
    [type |-> "LoginError", code |-> code, msg |-> msg, errcode |-> errcode]
SynapseError(code, msg) ==
    [type |-> "SynapseError", code |-> code, msg |-> msg, errcode |-> UNKNOWN]
TypeError == [type |-> "TypeError", code |-> 500, msg |-> "", errcode |-> UNKNOWN]

\* SynapseError.error_dict()
error_dict(e) == [errcode |-> e.errcode, error |-> e.msg]

Return(v) == [kind |-> "return", value |-> v]
Raise(e) == [kind |-> "raise", exc |-> e]

-----------------------------------------------------------------------------
(* AuthHandler.__init__ *)

\* An expiry of 24 hours.
SESSION_EXPIRE_MS_day == 24 * 60 * 60 * 1000

SESSION_EXPIRE_MS == 48 * 60 * 60 * 1000

\* the keys of self.checkers
checkers == {PASSWORD, RECAPTCHA, EMAIL_IDENTITY, MSISDN, DUMMY}

reset_expiry_on_get == TRUE

-----------------------------------------------------------------------------
(* synapse.util.caches.expiringcache.ExpiringCache: entries older than the *)
(* expiry are invisible; a set stamps the entry, and so does a get when    *)
(* reset_expiry_on_get is set.                                             *)

Expired(entry, t) == t - entry.time >= SESSION_EXPIRE_MS

CacheContains(c, k, t) == k \in DOMAIN c /\ ~Expired(c[k], t)

CacheSet(c, k, v, t) == Put(c, k, [time |-> t, value |-> v])

CacheGet(c, k, t) ==
    IF reset_expiry_on_get THEN Put(c, k, [time |-> t, value |-> c[k].value]) ELSE c

CachePrune(c, t) == [k \in {j \in DOMAIN c : ~Expired(c[j], t)} |-> c[k]]

-----------------------------------------------------------------------------
(* The session store: self.sessions and the session dicts it refers to.    *)
(* A store state is a record [sessions, heap]; a session is named by the   *)
(* reference of its dict, as Python names it by object identity.           *)

\* The identifiers stringutils.random_string(24) returns in the model.
SessionIds == {"sidA", "sidB"}

\* An identifier only a client makes up.
FORGED == "sidX"

\* A reference not in use.
NewRef(h) == CHOOSE r \in 1..(Cardinality(DOMAIN h) + 1) : r \notin DOMAIN h

\* The generation loop ending with the first id drawn.
fresh_session_ids_unchecked(c, t) == SessionIds

\* The ids the generation loop of _get_session_info can end with: it draws
\* again while the id drawn is in self.sessions.
fresh_session_ids(c, t) == {i \in SessionIds : ~CacheContains(c, i, t)}

\* A lookup that hands each request its own copy of the stored session.
_get_session_info_copy(st, session_id, fresh_id, t) ==
    LET sid == IF ~CacheContains(st.sessions, session_id, t) THEN None ELSE session_id
        ref == NewRef(st.heap)
    IN  IF sid = None
        THEN [sessions |-> CacheGet(CacheSet(st.sessions, fresh_id, ref, t), fresh_id, t),
              heap |-> Put(st.heap, ref, [id |-> fresh_id]),
              session |-> ref]
        ELSE [sessions |-> CacheGet(st.sessions, sid, t),
              heap |-> Put(st.heap, ref, st.heap[st.sessions[sid].value]),
              session |-> ref]

\* A lookup that creates the session under the id the client presented.
_get_session_info_adopting(st, session_id, fresh_id, t) ==
    LET sid == IF ~CacheContains(st.sessions, session_id, t) THEN None ELSE session_id
        new_id == IF session_id = None THEN fresh_id ELSE session_id
    IN  IF sid = None
        THEN LET ref == NewRef(st.heap)
                 created == CacheSet(st.sessions, new_id, ref, t)
             IN  [sessions |-> CacheGet(created, new_id, t),
                  heap |-> Put(st.heap, ref, [id |-> new_id]),
                  session |-> ref]
        ELSE [sessions |-> CacheGet(st.sessions, sid, t),
              heap |-> st.heap,
              session |-> st.sessions[sid].value]

\* _get_session_info(session_id), fresh_id being the id the loop ended with.
\* Gives the store state after the call and the session returned.
_get_session_info(st, session_id, fresh_id, t) ==
    LET sid == IF ~CacheContains(st.sessions, session_id, t) THEN None ELSE session_id
    IN  IF sid = None
        THEN LET ref == NewRef(st.heap)
                 created == CacheSet(st.sessions, fresh_id, ref, t)
             IN  [sessions |-> CacheGet(created, fresh_id, t),
                  heap |-> Put(st.heap, ref, [id |-> fresh_id]),
                  session |-> ref]
        ELSE [sessions |-> CacheGet(st.sessions, sid, t),
              heap |-> st.heap,
              session |-> st.sessions[sid].value]

\* _save_session(session)
_save_session(st, ref, t) ==
    LET session == Put(st.heap[ref], "last_used", t)
    IN  [sessions |-> CacheSet(st.sessions, session.id, ref, t),
         heap |-> Put(st.heap, ref, session)]

\* Python frees a session dict no one refers to any more.
Collect(h, c, held) ==
    [r \in {q \in DOMAIN h : q \in held \/ \E k \in DOMAIN c : c[k].value = q} |-> h[r]]

-----------------------------------------------------------------------------
(* The credential store adapter and validate_login *)

hostname == "hs"
password_pepper == "pepper"

\* str.startswith('@') and UserID(username, hostname).to_string()
Qualify(username) ==
    CASE username = "alice" -> "@alice:hs"
      [] username = "bob" -> "@bob:hs"
      [] OTHER -> username

\* the case folding of get_users_by_id_case_insensitive
Lower(user_id) ==
    CASE user_id \in {"@alice:hs", "@Alice:hs", "@ALICE:hs"} -> "@alice:hs"
      [] OTHER -> user_id

\* bcrypt.hashpw(data, salt): the salt can be read off a hash.
hashpw(data, salt) == <<salt, data>>
SaltOf(stored_hash) == stored_hash[1]

\* AuthHandler.hash with the salt bcrypt.gensalt drew
hash(password, salt) == hashpw(<<password, password_pepper>>, salt)

\* validate_hash(password, stored_hash); an absent hash is <<>>
validate_hash(password, stored_hash) ==
    IF stored_hash # <<>>
    THEN hashpw(<<password, password_pepper>>, SaltOf(stored_hash)) = stored_hash
    ELSE FALSE

\* store.get_users_by_id_case_insensitive(user_id)
get_users_by_id_case_insensitive(user_id) ==
    [u \in {v \in DOMAIN users : Lower(v) = Lower(user_id)} |-> users[u]]

\* The lookup settling for any match when there are several.
_find_any_match(user_id) ==
    LET user_infos == get_users_by_id_case_insensitive(user_id)
    IN  IF DOMAIN user_infos = {} THEN <<>>
        ELSE LET u == CHOOSE v \in DOMAIN user_infos : TRUE
             IN  <<u, user_infos[u]>>

\* _find_user_id_and_pwd_hash(user_id): <<>> for None, else <<id, hash>>
_find_user_id_and_pwd_hash(user_id) ==
    LET user_infos == get_users_by_id_case_insensitive(user_id)
    IN  IF DOMAIN user_infos = {} THEN <<>>
        ELSE IF Cardinality(DOMAIN user_infos) = 1
             THEN LET u == CHOOSE v \in DOMAIN user_infos : TRUE
                  IN  <<u, user_infos[u]>>
        ELSE IF user_id \in DOMAIN user_infos THEN <<user_id, user_infos[user_id]>>
        ELSE <<>>

\* The local check taking any password for any user id.
_check_local_password_unchecked(user_id, password) == user_id

\* _check_local_password(user_id, password): the canonical id, or None
_check_local_password(user_id, password) ==
    LET lookupres == _find_user_id_and_pwd_hash(user_id)
    IN  IF lookupres = <<>> THEN None
        ELSE IF ~validate_hash(password, lookupres[2]) THEN None
        ELSE lookupres[1]

\* dict.get(key) of a login submission
Get(d, k) == IF Has(d, k) THEN d[k] ELSE None

\* The loop over self.password_providers of validate_login, from provider i
\* on.  A provider is a dict of the capabilities it has: check_password (the
\* <<user id, password>> pairs it accepts), get_supported_login_types (login
\* type -> required fields) and check_auth (login type -> the user id it
\* answers, "" for no match).
RECURSIVE provider_loop(_, _, _, _, _)
provider_loop(i, username, qualified_user_id, login_submission, known_login_type) ==
    IF i > Len(password_providers)
    THEN [kind |-> "end", known_login_type |-> known_login_type]
    ELSE
    LET provider == password_providers[i]
        login_type == Get(login_submission, "type")
        password == Get(login_submission, "password")
        asks_password == Has(provider, "check_password") /\ login_type = PASSWORD
        known1 == known_login_type \/ asks_password
        next(k) == provider_loop(i + 1, username, qualified_user_id, login_submission, k)
    IN  IF asks_password /\ <<qualified_user_id, password>> \in provider.check_password
        THEN Return(<<qualified_user_id, None>>)
        ELSE IF ~Has(provider, "get_supported_login_types") \/ ~Has(provider, "check_auth")
        THEN next(known1)
        ELSE IF ~Has(provider.get_supported_login_types, login_type)
        THEN next(known1)
        ELSE
        LET login_fields == provider.get_supported_login_types[login_type]
            missing_fields == {f \in Range(login_fields) : ~Has(login_submission, f)}
            result == provider.check_auth[login_type]
        IN  IF missing_fields # {}
            THEN Raise(SynapseError(400, "Missing parameters for login type"))
            ELSE IF result # "" THEN Return(<<result, None>>)
            ELSE next(TRUE)

\* validate_login(username, login_submission)
validate_login(username, login_submission) ==
    LET qualified_user_id == Qualify(username)
        login_type == Get(login_submission, "type")
        password == Get(login_submission, "password")
    IN  IF login_type = PASSWORD /\ ~password_enabled
        THEN Raise(SynapseError(400, "Password login has been disabled."))
        ELSE IF login_type = PASSWORD /\ password \in {None, ""}
        THEN Raise(SynapseError(400, "Missing parameter: password"))
        ELSE
        LET looped == provider_loop(1, username, qualified_user_id, login_submission, FALSE)
        IN  IF looped.kind # "end" THEN looped
            ELSE
            LET canonical_user_id ==
                    IF login_type = PASSWORD
                    THEN _check_local_password(qualified_user_id, password)
                    ELSE None
                known_login_type == looped.known_login_type \/ login_type = PASSWORD
            IN  IF login_type = PASSWORD /\ canonical_user_id # None
                THEN Return(<<canonical_user_id, None>>)
                ELSE IF ~known_login_type
                THEN Raise(SynapseError(400, "Unknown login type"))
                ELSE Raise(LoginError(403, "Invalid password", FORBIDDEN))

-----------------------------------------------------------------------------
(* The stage checkers.  The answers of the collaborators outside the       *)
(* handler (the identity service, the captcha service) are inputs.         *)

\* identity_handler.threepid_from_creds(threepid_creds): <<>> for None
ThreepidAnswers ==
    {EmptyDict, [medium |-> "email", address |-> "a@hs"], [medium |-> "msisdn", address |-> "4412"]}

\* the JSON body the siteverify endpoint answers
RecaptchaAnswers == {EmptyDict, [success |-> FALSE], [success |-> TRUE]}

\* _check_password_auth(authdict, _)
_check_password_auth(authdict) ==
    IF ~Has(authdict, "user") \/ ~Has(authdict, "password")
    THEN Raise(LoginError(400, "", MISSING_PARAM))
    ELSE LET validated == validate_login(authdict.user,
                              [type |-> PASSWORD, password |-> authdict.password])
         IN  IF validated.kind = "return" THEN Return(validated.value[1]) ELSE validated

\* _check_recaptcha(authdict, clientip), resp_body being the service's answer
_check_recaptcha(authdict, resp_body) ==
    IF ~Has(authdict, "response")
    THEN Raise(LoginError(400, "Captcha response is required", CAPTCHA_NEEDED))
    ELSE IF Has(resp_body, "success") /\ resp_body.success
    THEN Return(TRUE)
    ELSE Raise(LoginError(401, "", UNAUTHORIZED))

\* _check_threepid(medium, authdict), threepid being the identity service's answer
_check_threepid(medium, authdict, threepid) ==
    IF ~Has(authdict, "threepid_creds")
    THEN Raise(LoginError(400, "Missing threepid_creds", MISSING_PARAM))
    ELSE IF DOMAIN threepid = {}
    THEN Raise(LoginError(401, "", UNAUTHORIZED))
    ELSE IF threepid.medium # medium
    THEN Raise(LoginError(401, "Expecting threepid of another type", UNAUTHORIZED))
    ELSE Return(Put(threepid, "threepid_creds", authdict.threepid_creds))

_check_email_identity(authdict, threepid) == _check_threepid("email", authdict, threepid)

_check_msisdn(authdict, threepid) == _check_threepid("msisdn", authdict, threepid)

\* The dummy checker answering False.
_check_dummy_auth_false(authdict) == Return(FALSE)

_check_dummy_auth(authdict) == Return(TRUE)

\* self.checkers[login_type](authdict, clientip)
run_checker(login_type, authdict, threepid, resp_body) ==
    CASE login_type = PASSWORD -> _check_password_auth(authdict)
      [] login_type = RECAPTCHA -> _check_recaptcha(authdict, resp_body)
      [] login_type = EMAIL_IDENTITY -> _check_email_identity(authdict, threepid)
      [] login_type = MSISDN -> _check_msisdn(authdict, threepid)
      [] login_type = DUMMY -> _check_dummy_auth(authdict)

\* Python's truth value of what the checker of login_type returned
Truthy(login_type, result) ==
    CASE login_type = PASSWORD -> result \notin {None, ""}
      [] login_type \in {RECAPTCHA, DUMMY} -> result
      [] login_type \in {EMAIL_IDENTITY, MSISDN} -> DOMAIN result # {}

-----------------------------------------------------------------------------
(* check_auth *)

recaptcha_public_key == "public_key"

_get_params_recaptcha == [public_key |-> recaptcha_public_key]

\* _auth_dict_for_flows(flows, session)
_auth_dict_for_flows(flows, session) ==
    [session |-> session.id,
     flows |-> [i \in DOMAIN flows |-> [stages |-> flows[i]]],
     params |-> IF \E i \in DOMAIN flows : RECAPTCHA \in Range(flows[i])
                THEN (RECAPTCHA :> _get_params_recaptcha)
                ELSE EmptyDict]

\* if 'creds' not in session: session['creds'] = {}
init_creds(st, ref) ==
    IF Has(st.heap[ref], "creds") THEN st
    ELSE [st EXCEPT !.heap = Put(st.heap, ref, Put(st.heap[ref], "creds", EmptyDict))]

\* The stage's result replacing the credentials instead of joining them.
record_stage_alone(st, ref, login_type, result) ==
    [st EXCEPT !.heap =
        Put(st.heap, ref, Put(st.heap[ref], "creds", (login_type :> result)))]

\* creds[login_type] = result
record_stage(st, ref, login_type, result) ==
    [st EXCEPT !.heap =
        Put(st.heap, ref,
            Put(st.heap[ref], "creds", Put(st.heap[ref].creds, login_type, result)))]

\* A flow counting as completed as soon as one of its stages is.
flow_completed_any(flows, creds) ==
    \E i \in DOMAIN flows : Range(flows[i]) \cap Keys(creds) # {}

\* len(set(f) - set(creds.keys())) == 0 for some f in flows
flow_completed(flows, creds) ==
    \E i \in DOMAIN flows : Range(flows[i]) \ Keys(creds) = {}

\* The last return listing the completed stages only once there is one.
check_auth_result_completed_if_any(st, ref, flows, clientdict, errordict) ==
    LET session == st.heap[ref]
        creds == session.creds
        described == _auth_dict_for_flows(flows, session)
    IN  IF flow_completed(flows, creds)
        THEN Return([authed |-> TRUE, result |-> creds,
                     clientdict |-> clientdict, session_id |-> session.id])
        ELSE Return([authed |-> FALSE,
                     result |-> Update(IF Keys(creds) = {} THEN described
                                       ELSE Put(described, "completed", Keys(creds)),
                                       errordict),
                     clientdict |-> clientdict, session_id |-> session.id])

\* The loop over flows and the two returns that end check_auth.
check_auth_result(st, ref, flows, clientdict, errordict) ==
    LET session == st.heap[ref]
        creds == session.creds
    IN  IF flow_completed(flows, creds)
        THEN Return([authed |-> TRUE, result |-> creds,
                     clientdict |-> clientdict, session_id |-> session.id])
        ELSE Return([authed |-> FALSE,
                     result |-> Update(Put(_auth_dict_for_flows(flows, session),
                                           "completed", Keys(creds)),
                                       errordict),
                     clientdict |-> clientdict, session_id |-> session.id])

-----------------------------------------------------------------------------
(* The requests *)

Procs == {"p1", "p2"}
Idle == [pc |-> "idle"]
NoResult == [op |-> "none", kind |-> "none"]

UNREGISTERED == "org.example.unregistered"

\* The stage-specific fields a client sends with a stage type.
StageFields(type) ==
    CASE type = PASSWORD ->
            {EmptyDict,
             [user |-> "@alice:hs", password |-> "pw1"],
             [user |-> "@alice:hs", password |-> "bad"],
             [user |-> "@alice:hs", password |-> ""]}
      [] type = RECAPTCHA -> {EmptyDict, [response |-> "r"]}
      [] type \in {EMAIL_IDENTITY, MSISDN} -> {EmptyDict, [threepid_creds |-> "tc"]}
      [] OTHER -> {EmptyDict}

\* The auth blocks a client sends about the sessions sids with a stage of
\* types: the session and the stage may each be absent.
AuthDicts(sids, types) ==
    LET session_part == {EmptyDict} \cup {[session |-> i] : i \in sids}
        stage_part == {EmptyDict} \cup
            UNION {{Update([type |-> ty], f) : f \in StageFields(ty)} : ty \in types}
    IN  {Update(s, g) : s \in session_part, g \in stage_part}

\* The bodies check_auth is called with: null, or a dict of client
\* parameters with or without an auth block.
ClientDicts(params, authdicts) ==
    {<<>>} \cup {<<c>> : c \in params}
           \cup {<<Put(c, "auth", a)>> : c \in params, a \in authdicts}

\* The fields add_oob_auth is called with for a stage type.
OobAuthDicts(sids, type) ==
    {Update(s, f) : s \in {EmptyDict} \cup {[session |-> i] : i \in sids},
                    f \in StageFields(type)}

\* What the collaborator the checker of a stage type asks can answer.
Answers(type) ==
    CASE type = RECAPTCHA -> {[threepid |-> EmptyDict, resp_body |-> b] : b \in RecaptchaAnswers}
      [] type \in {EMAIL_IDENTITY, MSISDN} ->
            {[threepid |-> a, resp_body |-> EmptyDict] : a \in ThreepidAnswers}
      [] OTHER -> {[threepid |-> EmptyDict, resp_body |-> EmptyDict]}

\* The references the suspended handlers hold.
Held(cs) == {cs[p].session : p \in {q \in Procs : cs[q].pc # "idle"}}

\* The handler in slot p ends: its result goes to the caller.
Finish(p, st, outcome, req) ==
    /\ calls' = [calls EXCEPT ![p] = Idle]
    /\ sessions' = st.sessions
    /\ heap' = Collect(st.heap, st.sessions, Held(calls'))
    /\ returned' = [op |-> req.op, req |-> req, kind |-> outcome.kind,
                    value |-> IF outcome.kind = "return" THEN outcome.value ELSE outcome.exc]
    /\ UNCHANGED <<now, password_enabled, password_providers, users, store_vars>>

\* The handler in slot p is suspended in its checker.
Suspend(p, st, req, ref, clientdict) ==
    /\ calls' = [calls EXCEPT ![p] =
                    [pc |-> "checker", req |-> req, session |-> ref,
                     clientdict |-> clientdict]]
    /\ sessions' = st.sessions
    /\ heap' = st.heap
    /\ UNCHANGED <<now, returned, password_enabled, password_providers, users, store_vars>>

\* The ids the session of a request for session_id can be created under;
\* None stands for "none is created".
FreshIds(session_id) ==
    IF CacheContains(sessions, session_id, now) THEN {None}
    ELSE fresh_session_ids(sessions, now)

\* The client parameters kept only while the session has none.
store_clientdict_once(st, ref, clientdict, t) ==
    IF DOMAIN clientdict # {} /\ ~Has(st.heap[ref], "clientdict")
    THEN _save_session(
            [st EXCEPT !.heap = Put(st.heap, ref,
                                    Put(st.heap[ref], "clientdict", clientdict))],
            ref, t)
    ELSE st

\* if len(clientdict) > 0: session['clientdict'] = clientdict, and the save
store_clientdict(st, ref, clientdict, t) ==
    IF DOMAIN clientdict # {}
    THEN _save_session(
            [st EXCEPT !.heap = Put(st.heap, ref,
                                    Put(st.heap[ref], "clientdict", clientdict))],
            ref, t)
    ELSE st

\* elif 'clientdict' in session: clientdict = session['clientdict']
effective_clientdict(session, clientdict) ==
    IF DOMAIN clientdict # {} THEN clientdict
    ELSE IF Has(session, "clientdict") THEN session.clientdict
    ELSE clientdict

\* check_auth(flows, clientdict, clientip) up to the call of the checker;
\* fresh_id is the id random_string ends with if a session is created.
check_auth(p, flows, body, fresh_id) ==
    LET req == [op |-> "check_auth", flows |-> flows, clientdict |-> body]
        has_auth == Len(body) = 1 /\ DOMAIN body[1] # {} /\ Has(body[1], "auth")
        authdict == IF has_auth THEN body[1].auth ELSE EmptyDict
        stripped == IF has_auth THEN <<Del(body[1], "auth")>> ELSE body
        sid == IF has_auth /\ Has(authdict, "session") THEN authdict.session ELSE None
    IN
    /\ calls[p].pc = "idle"
    /\ returned = NoResult
    /\ fresh_id \in FreshIds(sid)
    /\ LET st1 == _get_session_info([sessions |-> sessions, heap |-> heap],
                                    sid, fresh_id, now)
           ref == st1.session
       IN  IF Len(stripped) = 0
           THEN \* len(None)
                Finish(p, st1, Raise(TypeError), req)
           ELSE
           LET carried == stripped[1]
               st2 == store_clientdict(st1, ref, carried, now)
               clientdict == effective_clientdict(st1.heap[ref], carried)
           IN  IF DOMAIN authdict = {}
               THEN Finish(p, st2,
                           Return([authed |-> FALSE,
                                   result |-> _auth_dict_for_flows(flows, st2.heap[ref]),
                                   clientdict |-> clientdict,
                                   session_id |-> st2.heap[ref].id]),
                           req)
               ELSE
               LET st3 == init_creds(st2, ref)
               IN  IF ~Has(authdict, "type")
                   THEN Finish(p, st3,
                               check_auth_result(st3, ref, flows, clientdict, EmptyDict),
                               req)
                   ELSE IF authdict.type \notin checkers
                   THEN Finish(p, st3, Raise(LoginError(400, "", UNRECOGNIZED)), req)
                   ELSE Suspend(p, st3, req, ref, clientdict)

\* The except clause without its email-possession case.
reraised_no_email_case(login_type, exc) == exc.type # "LoginError"

\* except LoginError, e: whether check_auth lets the checker's exception out
\* (any other exception is not caught at all).
reraised(login_type, exc) ==
    exc.type # "LoginError" \/ login_type = EMAIL_IDENTITY

\* check_auth from the checker's answer on
check_auth_resume(p) ==
    /\ calls[p].pc = "checker"
    /\ calls[p].req.op = "check_auth"
    /\ LET req == calls[p].req
           ref == calls[p].session
           authdict == req.clientdict[1].auth
           login_type == authdict.type
           st == [sessions |-> sessions, heap |-> heap]
       IN  \E answer \in Answers(login_type) :
            LET checked == run_checker(login_type, authdict,
                                       answer.threepid, answer.resp_body)
            IN  IF checked.kind = "return"
                THEN LET st1 == IF Truthy(login_type, checked.value)
                                THEN _save_session(
                                        record_stage(st, ref, login_type, checked.value),
                                        ref, now)
                                ELSE st
                     IN  Finish(p, st1,
                                check_auth_result(st1, ref, req.flows,
                                                  calls[p].clientdict, EmptyDict),
                                req)
                ELSE IF reraised(login_type, checked.exc)
                THEN Finish(p, st, checked, req)
                ELSE Finish(p, st,
                            check_auth_result(st, ref, req.flows, calls[p].clientdict,
                                              error_dict(checked.exc)),
                            req)

\* add_oob_auth(stagetype, authdict, clientip) up to the call of the checker
add_oob_auth(p, stagetype, authdict, fresh_id) ==
    LET req == [op |-> "add_oob_auth", stagetype |-> stagetype, authdict |-> authdict]
        st == [sessions |-> sessions, heap |-> heap]
    IN
    /\ calls[p].pc = "idle"
    /\ returned = NoResult
    /\ IF stagetype \notin checkers
       THEN fresh_id = None
            /\ Finish(p, st, Raise(LoginError(400, "", MISSING_PARAM)), req)
       ELSE IF ~Has(authdict, "session")
       THEN fresh_id = None
            /\ Finish(p, st, Raise(LoginError(400, "", MISSING_PARAM)), req)
       ELSE /\ fresh_id \in FreshIds(authdict.session)
            /\ LET st1 == _get_session_info(st, authdict.session, fresh_id, now)
               IN  Suspend(p, init_creds(st1, st1.session), req, st1.session, EmptyDict)

\* add_oob_auth from the checker's answer on
add_oob_auth_resume(p) ==
    /\ calls[p].pc = "checker"
    /\ calls[p].req.op = "add_oob_auth"
    /\ LET req == calls[p].req
           ref == calls[p].session
           st == [sessions |-> sessions, heap |-> heap]
       IN  \E answer \in Answers(req.stagetype) :
            LET checked == run_checker(req.stagetype, req.authdict,
                                       answer.threepid, answer.resp_body)
            IN  IF checked.kind = "raise"
                THEN Finish(p, st, checked, req)
                ELSE IF Truthy(req.stagetype, checked.value)
                THEN Finish(p,
                            _save_session(
                                record_stage(st, ref, req.stagetype, checked.value),
                                ref, now),
                            Return(TRUE), req)
                ELSE Finish(p, st, Return(FALSE), req)

\* The caller takes the result of the handler that ended.
Deliver ==
    /\ returned # NoResult
    /\ returned' = NoResult
    /\ UNCHANGED <<now, sessions, heap, calls, password_enabled, password_providers, users, store_vars>>

\* The clock advances; the cache drops what has expired.
Tick ==
    /\ now < MaxTicks * TICK_MS
    /\ returned = NoResult
    /\ now' = now + TICK_MS
    /\ sessions' = CachePrune(sessions, now')
    /\ heap' = Collect(heap, sessions', Held(calls))
    /\ UNCHANGED <<calls, returned, password_enabled, password_providers, users, store_vars>>

-----------------------------------------------------------------------------
(* Spec: the handler serving one request at a time, every stage type *)

Init ==
    /\ now = 0
    /\ sessions = EmptyDict
    /\ heap = EmptyDict
    /\ calls = [p \in Procs |-> Idle]
    /\ returned = NoResult
    /\ password_enabled = TRUE
    /\ password_providers = <<>>
    /\ users = ("@alice:hs" :> hash("pw1", "salt1"))
    /\ access_tokens = EmptyDict
    /\ devices = {}
    /\ pushers = {}
    /\ logged_out = <<>>
    /\ minted = {}

\* The lists of flows a caller offers.
FlowLists ==
    { << <<DUMMY>> >>,
      << <<PASSWORD>>, <<EMAIL_IDENTITY, RECAPTCHA>> >>,
      << <<RECAPTCHA, MSISDN>>, <<DUMMY, PASSWORD>> >>,
      << << >> >>,
      << >> }

StageTypes == checkers \cup {UNREGISTERED}
GeneratedIds == {"sidA"}
ClientSids == {"sidA", FORGED}
ClientParams == {EmptyDict, [x |-> "v1"]}

\* No handler is running and the last result has been taken.
Quiet == (\A p \in Procs : calls[p].pc = "idle") /\ returned = NoResult

Next ==
    \/ /\ Quiet
       /\ \E flows \in FlowLists,
             body \in ClientDicts(ClientParams, AuthDicts(ClientSids, StageTypes)),
             fresh_id \in GeneratedIds \cup {None} :
                check_auth("p1", flows, body, fresh_id)
    \/ check_auth_resume("p1")
    \/ /\ Quiet
       /\ \E stagetype \in StageTypes, fresh_id \in GeneratedIds \cup {None} :
            \E authdict \in OobAuthDicts(ClientSids, stagetype) :
                add_oob_auth("p1", stagetype, authdict, fresh_id)
    \/ add_oob_auth_resume("p1")
    \/ Deliver
    \/ Tick

Spec == Init /\ [][Next]_vars

-----------------------------------------------------------------------------
(* SpecSessions: the handler serving one request at a time, with two       *)
(* session ids to generate, client parameters that differ, and the dummy   *)
(* stage.                                                                  *)

SessionFlowLists == { << <<DUMMY>> >>, << <<DUMMY, EMAIL_IDENTITY>> >> }
SessionStageTypes == {DUMMY}
SessionParams == {EmptyDict, [x |-> "v1"], [x |-> "v2"]}

NextSessions ==
    \/ /\ Quiet
       /\ \E flows \in SessionFlowLists,
             body \in ClientDicts(SessionParams, AuthDicts(SessionIds, SessionStageTypes)),
             fresh_id \in SessionIds \cup {None} :
                check_auth("p1", flows, body, fresh_id)
    \/ check_auth_resume("p1")
    \/ Deliver
    \/ Tick

SpecSessions == Init /\ [][NextSessions]_vars

-----------------------------------------------------------------------------
(* SpecLogin: validate_login and check_user_exists, one call at a time,    *)
(* over the configurations of providers, users and password_enabled.       *)
(* validate_login runs from one provider to the next: the handler waits    *)
(* for each provider's answer and for the local lookup.                    *)

\* A handler that works on no auth session ends.
Done(p, outcome, req, extra) ==
    /\ calls' = [calls EXCEPT ![p] = Idle]
    /\ returned' = Update([op |-> req.op, req |-> req, kind |-> outcome.kind,
                           value |-> IF outcome.kind = "return" THEN outcome.value
                                     ELSE outcome.exc],
                          extra)

\* The provider's check_password never counting as valid.
is_valid_never(provider, qualified_user_id, password) == FALSE

\* is_valid = yield provider.check_password(qualified_user_id, password)
is_valid(provider, qualified_user_id, password) ==
    <<qualified_user_id, password>> \in provider.check_password

\* validate_login(username, login_submission) up to the loop over providers
validate_login_begin(p, username, login_submission) ==
    LET req == [op |-> "validate_login", username |-> username,
                login_submission |-> login_submission]
        login_type == Get(login_submission, "type")
        password == Get(login_submission, "password")
    IN
    /\ calls[p].pc = "idle"
    /\ returned = NoResult
    /\ IF login_type = PASSWORD /\ ~password_enabled
       THEN Done(p, Raise(SynapseError(400, "Password login has been disabled.")),
                 req, [consulted |-> <<>>])
       ELSE IF login_type = PASSWORD /\ password \in {None, ""}
       THEN Done(p, Raise(SynapseError(400, "Missing parameter: password")),
                 req, [consulted |-> <<>>])
       ELSE /\ calls' = [calls EXCEPT ![p] =
                            [pc |-> "provider", req |-> req, i |-> 1,
                             known_login_type |-> FALSE, consulted |-> <<>>]]
            /\ UNCHANGED returned
    /\ UNCHANGED <<now, sessions, heap, password_enabled, password_providers,
                   users, store_vars>>

\* A turn of the loop that asks the provider's check_auth before its
\* check_password.
validate_login_provider_auth_first(p) ==
    /\ calls[p].pc = "provider"
    /\ calls[p].i <= Len(password_providers)
    /\ LET c == calls[p]
           req == c.req
           provider == password_providers[c.i]
           qualified_user_id == Qualify(req.username)
           login_type == Get(req.login_submission, "type")
           password == Get(req.login_submission, "password")
           asks_password == Has(provider, "check_password") /\ login_type = PASSWORD
           asks_auth ==
               /\ Has(provider, "get_supported_login_types") /\ Has(provider, "check_auth")
               /\ Has(provider.get_supported_login_types, login_type)
               /\ \A f \in Range(provider.get_supported_login_types[login_type]) :
                     Has(req.login_submission, f)
           consulted1 == IF asks_auth THEN Append(c.consulted, <<c.i, "check_auth">>)
                         ELSE c.consulted
           consulted2 == IF asks_password THEN Append(consulted1, <<c.i, "check_password">>)
                         ELSE consulted1
       IN  IF asks_auth /\ provider.check_auth[login_type] # ""
           THEN Done(p, Return(<<provider.check_auth[login_type], None>>), req,
                     [consulted |-> consulted1])
           ELSE IF asks_password /\ is_valid(provider, qualified_user_id, password)
           THEN Done(p, Return(<<qualified_user_id, None>>), req,
                     [consulted |-> consulted2])
           ELSE /\ calls' = [calls EXCEPT ![p] =
                               [c EXCEPT !.i = c.i + 1,
                                         !.known_login_type = @ \/ asks_auth \/ asks_password,
                                         !.consulted = consulted2]]
                /\ UNCHANGED returned
    /\ UNCHANGED <<now, sessions, heap, password_enabled, password_providers,
                   users, store_vars>>

\* One turn of the loop over self.password_providers
validate_login_provider(p) ==
    /\ calls[p].pc = "provider"
    /\ calls[p].i <= Len(password_providers)
    /\ LET c == calls[p]
           req == c.req
           provider == password_providers[c.i]
           qualified_user_id == Qualify(req.username)
           login_type == Get(req.login_submission, "type")
           password == Get(req.login_submission, "password")
           asks_password == Has(provider, "check_password") /\ login_type = PASSWORD
           known1 == c.known_login_type \/ asks_password
           consulted1 == IF asks_password
                         THEN Append(c.consulted, <<c.i, "check_password">>)
                         ELSE c.consulted
           continue(known, consulted) ==
               /\ calls' = [calls EXCEPT ![p] =
                               [c EXCEPT !.i = c.i + 1, !.known_login_type = known,
                                         !.consulted = consulted]]
               /\ UNCHANGED returned
       IN  IF asks_password /\ is_valid(provider, qualified_user_id, password)
           THEN Done(p, Return(<<qualified_user_id, None>>), req,
                     [consulted |-> consulted1])
           ELSE IF ~Has(provider, "get_supported_login_types") \/ ~Has(provider, "check_auth")
           THEN continue(known1, consulted1)
           ELSE IF ~Has(provider.get_supported_login_types, login_type)
           THEN continue(known1, consulted1)
           ELSE
           LET login_fields == provider.get_supported_login_types[login_type]
               missing_fields == {f \in Range(login_fields) : ~Has(req.login_submission, f)}
               result == provider.check_auth[login_type]
               consulted2 == Append(consulted1, <<c.i, "check_auth">>)
           IN  IF missing_fields # {}
               THEN Done(p, Raise(SynapseError(400, "Missing parameters for login type")),
                         req, [consulted |-> consulted1])
               ELSE IF result # ""
               THEN Done(p, Return(<<result, None>>), req, [consulted |-> consulted2])
               ELSE continue(TRUE, consulted2)
    /\ UNCHANGED <<now, sessions, heap, password_enabled, password_providers,
                   users, store_vars>>

\* validate_login after the loop: the local password check and the two errors
validate_login_local(p) ==
    /\ calls[p].pc = "provider"
    /\ calls[p].i > Len(password_providers)
    /\ LET c == calls[p]
           req == c.req
           qualified_user_id == Qualify(req.username)
           login_type == Get(req.login_submission, "type")
           password == Get(req.login_submission, "password")
           canonical_user_id ==
               IF login_type = PASSWORD
               THEN _check_local_password(qualified_user_id, password)
               ELSE None
           known_login_type == c.known_login_type \/ login_type = PASSWORD
           consulted == IF login_type = PASSWORD
                        THEN Append(c.consulted, <<Len(password_providers) + 1, "local">>)
                        ELSE c.consulted
       IN  IF login_type = PASSWORD /\ canonical_user_id # None
           THEN Done(p, Return(<<canonical_user_id, None>>), req, [consulted |-> consulted])
           ELSE IF ~known_login_type
           THEN Done(p, Raise(SynapseError(400, "Unknown login type")), req,
                     [consulted |-> consulted])
           ELSE Done(p, Raise(LoginError(403, "Invalid password", FORBIDDEN)), req,
                     [consulted |-> consulted])
    /\ UNCHANGED <<now, sessions, heap, password_enabled, password_providers,
                   users, store_vars>>

\* check_user_exists(user_id)
check_user_exists(p, user_id) ==
    LET req == [op |-> "check_user_exists", user_id |-> user_id]
        res == _find_user_id_and_pwd_hash(user_id)
    IN
    /\ calls[p].pc = "idle"
    /\ returned = NoResult
    /\ Done(p, Return(IF res # <<>> THEN res[1] ELSE None), req, EmptyDict)
    /\ UNCHANGED <<now, sessions, heap, password_enabled, password_providers,
                   users, store_vars>>

CUSTOM == "org.example.token"

\* The password auth providers of the model, by the capabilities they have.
ProviderPassword ==
    [check_password |-> {<<"@Alice:hs", "pw1">>, <<"@alice:hs", "pwP">>}]
ProviderCustom ==
    [get_supported_login_types |-> (CUSTOM :> <<"token">>),
     check_auth |-> (CUSTOM :> "@carol:hs")]
ProviderBoth ==
    [check_password |-> {},
     get_supported_login_types |-> (PASSWORD :> <<"password">>) @@ (CUSTOM :> <<"token", "extra">>),
     check_auth |-> (PASSWORD :> "") @@ (CUSTOM :> ""),
     on_logged_out |-> "ok"]
ProviderPartial ==
    [get_supported_login_types |-> (CUSTOM :> <<>>), on_logged_out |-> "ok"]

Providers == {ProviderPassword, ProviderCustom, ProviderBoth, ProviderPartial}
ProviderLists == {<<>>} \cup {<<a>> : a \in Providers} \cup {<<a, b>> : a, b \in Providers}

\* The users the store can hold.
UserTables ==
    { EmptyDict,
      ("@alice:hs" :> hash("pw1", "salt1")),
      ("@alice:hs" :> hash("pw1", "salt1")) @@ ("@Alice:hs" :> hash("pw2", "salt2")),
      ("@Alice:hs" :> hash("pw1", "salt1")) @@ ("@ALICE:hs" :> hash("pw1", "salt2")) }

Usernames == {"alice", "@Alice:hs", "@ALICE:hs"}
UserIds == {"@alice:hs", "@Alice:hs", "@ALICE:hs", "@bob:hs"}
LoginSubmissions ==
    { [type |-> PASSWORD, password |-> "pw1"],
      [type |-> PASSWORD, password |-> "pwP"],
      [type |-> PASSWORD, password |-> ""],
      [type |-> PASSWORD],
      [type |-> CUSTOM, token |-> "t"],
      [type |-> CUSTOM, token |-> "t", extra |-> "e"],
      [type |-> CUSTOM],
      [type |-> UNREGISTERED],
      EmptyDict }

InitLogin ==
    /\ now = 0
    /\ sessions = EmptyDict
    /\ heap = EmptyDict
    /\ calls = [p \in Procs |-> Idle]
    /\ returned = NoResult
    /\ password_enabled \in BOOLEAN
    /\ password_providers \in ProviderLists
    /\ users \in UserTables
    /\ access_tokens = EmptyDict
    /\ devices = {}
    /\ pushers = {}
    /\ logged_out = <<>>
    /\ minted = {}

\* The caller of a handler that works on no auth session takes its result.
Taken ==
    /\ returned # NoResult
    /\ returned' = NoResult
    /\ UNCHANGED <<now, sessions, heap, calls, password_enabled, password_providers,
                   users, store_vars>>

NextLogin ==
    \/ /\ Quiet
       /\ \E username \in Usernames, login_submission \in LoginSubmissions :
            validate_login_begin("p1", username, login_submission)
    \/ validate_login_provider("p1")
    \/ validate_login_local("p1")
    \/ /\ Quiet
       /\ \E user_id \in UserIds : check_user_exists("p1", user_id)
    \/ Taken

SpecLogin == InitLogin /\ [][NextLogin]_vars

-----------------------------------------------------------------------------
(* MacaroonGeneartor and validate_short_term_login_token_and_get_user_id.  *)
(* A macaroon is its location, identifier and list of caveats; a caveat    *)
(* "name = value" or "time < value" is the pair of its two sides.          *)

server_name == "hs"

AuthError(code, msg, errcode) ==
    [type |-> "AuthError", code |-> code, msg |-> msg, errcode |-> errcode]

\* The base macaroon with its two caveats the other way round.
_generate_base_macaroon_user_first(user_id) ==
    [location |-> server_name, identifier |-> "key",
     caveats |-> << <<"user_id", user_id>>, <<"gen", "1">> >>]

\* _generate_base_macaroon(user_id)
_generate_base_macaroon(user_id) ==
    [location |-> server_name, identifier |-> "key",
     caveats |-> << <<"gen", "1">>, <<"user_id", user_id>> >>]

add_first_party_caveat(macaroon, caveat) ==
    [macaroon EXCEPT !.caveats = Append(@, caveat)]

RECURSIVE add_caveats(_, _)
add_caveats(macaroon, extra_caveats) ==
    IF extra_caveats = <<>> THEN macaroon
    ELSE add_caveats(add_first_party_caveat(macaroon, Head(extra_caveats)),
                     Tail(extra_caveats))

\* macaroon.serialize() and pymacaroons.Macaroon.deserialize(token), which
\* raises on what is no serialized macaroon
serialize(macaroon) ==
    <<"macaroon", macaroon.location, macaroon.identifier, macaroon.caveats>>
IsSerialized(token) == Len(token) = 4 /\ token[1] = "macaroon"
deserialize(token) ==
    [location |-> token[2], identifier |-> token[3], caveats |-> token[4]]

\* The access token without its nonce.
generate_access_token_no_nonce(user_id, extra_caveats, nonce) ==
    serialize(add_caveats(
        add_first_party_caveat(_generate_base_macaroon(user_id), <<"type", "access">>),
        extra_caveats))

\* generate_access_token(user_id, extra_caveats), nonce being the string
\* random_string_with_symbols(16) returned
generate_access_token(user_id, extra_caveats, nonce) ==
    serialize(add_caveats(
        add_first_party_caveat(
            add_first_party_caveat(_generate_base_macaroon(user_id), <<"type", "access">>),
            <<"nonce", nonce>>),
        extra_caveats))

\* The default of duration_in_ms
DEFAULT_DURATION_MS == 2 * 60 * 1000

\* The login token whose deadline is the time of issue.
generate_login_token_no_duration(user_id, duration_arg, t) ==
    serialize(add_first_party_caveat(
        add_first_party_caveat(_generate_base_macaroon(user_id), <<"type", "login">>),
        <<"time <", t>>))

\* generate_short_term_login_token(user_id, duration_in_ms) at clock t;
\* duration_arg is <<>> when the caller leaves duration_in_ms out
generate_short_term_login_token(user_id, duration_arg, t) ==
    LET duration_in_ms == IF duration_arg = <<>> THEN DEFAULT_DURATION_MS
                          ELSE duration_arg[1]
        expiry == t + duration_in_ms
    IN  serialize(add_first_party_caveat(
            add_first_party_caveat(_generate_base_macaroon(user_id), <<"type", "login">>),
            <<"time <", expiry>>))

\* generate_delete_pusher_token(user_id)
generate_delete_pusher_token(user_id) ==
    serialize(add_first_party_caveat(_generate_base_macaroon(user_id),
                                     <<"type", "delete_pusher">>))

\* auth_api.get_user_id_from_macaroon(macaroon): <<>> when it raises
get_user_id_from_macaroon(macaroon) ==
    LET at == {i \in DOMAIN macaroon.caveats : macaroon.caveats[i][1] = "user_id"}
    IN  IF at = {} THEN <<>>
        ELSE <<macaroon.caveats[CHOOSE i \in at : \A j \in at : i <= j][2]>>

\* auth_api.validate_macaroon(macaroon, type_string, verify_expiry, user_id)
\* at clock t: every caveat has to be satisfied.
validate_macaroon(macaroon, type_string, verify_expiry, user_id, t) ==
    /\ macaroon.location = server_name
    /\ macaroon.identifier = "key"
    /\ \A i \in DOMAIN macaroon.caveats :
        LET caveat == macaroon.caveats[i]
        IN  \/ caveat = <<"gen", "1">>
            \/ caveat = <<"type", type_string>>
            \/ caveat = <<"user_id", user_id>>
            \/ caveat = <<"guest", "true">>
            \/ caveat[1] = "time <" /\ (~verify_expiry \/ t < caveat[2])
    /\ \E i \in DOMAIN macaroon.caveats : macaroon.caveats[i] = <<"type", type_string>>

\* validate_short_term_login_token_and_get_user_id(login_token) at clock t
validate_short_term_login_token_and_get_user_id(login_token, t) ==
    IF ~IsSerialized(login_token)
    THEN Raise(AuthError(403, "Invalid token", FORBIDDEN))
    ELSE LET macaroon == deserialize(login_token)
             user_id == get_user_id_from_macaroon(macaroon)
         IN  IF user_id = <<>>
             THEN Raise(AuthError(403, "Invalid token", FORBIDDEN))
             ELSE IF ~validate_macaroon(macaroon, "login", TRUE, user_id[1], t)
             THEN Raise(AuthError(403, "Invalid token", FORBIDDEN))
             ELSE Return(user_id[1])

-----------------------------------------------------------------------------
(* SpecTokens: the generator issuing tokens and the handler validating     *)
(* login tokens, while the clock advances by minutes.                      *)

Nonces == {"n1", "n2"}
TokenUsers == {"@alice:hs", "@bob:hs"}
ExtraCaveats ==
    {<<>>, << <<"guest", "true">> >>,
     << <<"guest", "true">>, <<"device", "dev1">> >>,
     << <<"device", "dev1">>, <<"guest", "true">> >>}
DurationArgs == {<<>>, <<MINUTE_MS>>}
GARBAGE == <<"garbage">>

\* macaroon_gen.generate_access_token is called
access_token_generated(p, user_id, extra_caveats, nonce) ==
    LET req == [op |-> "generate_access_token", user_id |-> user_id,
                extra_caveats |-> extra_caveats, nonce |-> nonce]
        token == generate_access_token(user_id, extra_caveats, nonce)
    IN
    /\ calls[p].pc = "idle"
    /\ returned = NoResult
    /\ Cardinality(minted) < MaxMinted
    /\ Done(p, Return(token), req, EmptyDict)
    /\ minted' = minted \cup {[token |-> token, type |-> "access", user_id |-> user_id,
                               extra_caveats |-> extra_caveats, nonce |-> nonce,
                               expiry |-> 0]}
    /\ UNCHANGED <<now, sessions, heap, password_enabled, password_providers, users,
                   access_tokens, devices, pushers, logged_out>>

\* macaroon_gen.generate_short_term_login_token is called
login_token_generated(p, user_id, duration_arg) ==
    LET req == [op |-> "generate_short_term_login_token", user_id |-> user_id,
                duration_arg |-> duration_arg]
        token == generate_short_term_login_token(user_id, duration_arg, now)
    IN
    /\ calls[p].pc = "idle"
    /\ returned = NoResult
    /\ Cardinality(minted) < MaxMinted
    /\ Done(p, Return(token), req, EmptyDict)
    /\ minted' = minted \cup {[token |-> token, type |-> "login", user_id |-> user_id,
                               extra_caveats |-> <<>>, nonce |-> None,
                               expiry |-> now + (IF duration_arg = <<>>
                                                 THEN 2 * 60 * 1000
                                                 ELSE duration_arg[1])]}
    /\ UNCHANGED <<now, sessions, heap, password_enabled, password_providers, users,
                   access_tokens, devices, pushers, logged_out>>

\* macaroon_gen.generate_delete_pusher_token is called
delete_pusher_token_generated(p, user_id) ==
    LET req == [op |-> "generate_delete_pusher_token", user_id |-> user_id]
        token == generate_delete_pusher_token(user_id)
    IN
    /\ calls[p].pc = "idle"
    /\ returned = NoResult
    /\ Cardinality(minted) < MaxMinted
    /\ Done(p, Return(token), req, EmptyDict)
    /\ minted' = minted \cup {[token |-> token, type |-> "delete_pusher",
                               user_id |-> user_id, extra_caveats |-> <<>>,
                               nonce |-> None, expiry |-> 0]}
    /\ UNCHANGED <<now, sessions, heap, password_enabled, password_providers, users,
                   access_tokens, devices, pushers, logged_out>>

\* validate_short_term_login_token_and_get_user_id is called
login_token_validated(p, login_token) ==
    LET req == [op |-> "validate_short_term_login_token_and_get_user_id",
                login_token |-> login_token]
    IN
    /\ calls[p].pc = "idle"
    /\ returned = NoResult
    /\ Done(p, validate_short_term_login_token_and_get_user_id(login_token, now),
            req, EmptyDict)
    /\ UNCHANGED <<now, sessions, heap, password_enabled, password_providers, users,
                   store_vars>>

\* The clock advances by a minute.
TickMinute ==
    /\ now < MaxMinutes * MINUTE_MS
    /\ returned = NoResult
    /\ now' = now + MINUTE_MS
    /\ UNCHANGED <<sessions, heap, calls, returned, password_enabled,
                   password_providers, users, store_vars>>

NextTokens ==
    \/ \E user_id \in TokenUsers, extra_caveats \in ExtraCaveats, nonce \in Nonces :
            access_token_generated("p1", user_id, extra_caveats, nonce)
    \/ \E user_id \in TokenUsers, duration_arg \in DurationArgs :
            login_token_generated("p1", user_id, duration_arg)
    \/ \E user_id \in TokenUsers : delete_pusher_token_generated("p1", user_id)
    \/ \E login_token \in {m.token : m \in minted} \cup {GARBAGE} :
            login_token_validated("p1", login_token)
    \/ Taken
    \/ TickMinute

SpecTokens == Init /\ [][NextTokens]_vars

-----------------------------------------------------------------------------
(* The store of access tokens and devices (self.store), as the handler     *)
(* uses it.  A row of access_tokens is [user_id, device_id, id].           *)

NOT_FOUND == "M_NOT_FOUND"
UNKNOWN_TOKEN == "M_UNKNOWN_TOKEN"

StoreError(code, msg) ==
    [type |-> "StoreError", code |-> code, msg |-> msg, errcode |-> UNKNOWN]
IntegrityError ==
    [type |-> "IntegrityError", code |-> 500, msg |-> "", errcode |-> UNKNOWN]
ProviderError ==
    [type |-> "ProviderError", code |-> 500, msg |-> "", errcode |-> UNKNOWN]
SynapseErrorWith(code, msg, errcode) ==
    [type |-> "SynapseError", code |-> code, msg |-> msg, errcode |-> errcode]

\* The id the store gives a new row: one no row and no pusher refers to.
next_token_id(tokens, ps) ==
    LET used == {tokens[t].id : t \in DOMAIN tokens} \cup {q.access_token : q \in ps}
    IN  CHOOSE i \in 1..(Cardinality(used) + 1) : i \notin used

\* store.add_access_token_to_user(user_id, token, device_id)
add_access_token_to_user(tokens, ps, user_id, token, device_id) ==
    Put(tokens, token, [user_id |-> user_id, device_id |-> device_id,
                        id |-> next_token_id(tokens, ps)])

\* store.delete_access_token(access_token)
store_delete_access_token(tokens, token) == Del(tokens, token)

\* store.get_device(user_id, device_id) finds the record
get_device(ds, user_id, device_id) == <<user_id, device_id>> \in ds

\* The token of a raced login left in the store.
raced_cleanup_none(tokens, token) == tokens

\* except StoreError: yield self.store.delete_access_token(access_token)
raced_cleanup(tokens, token) == store_delete_access_token(tokens, token)

\* get_access_token_for_user_id(user_id, device_id) up to the answer of
\* store.get_device; nonce is the one generate_access_token draws
\* (the caller is a new request, or a login request that validated the user)
get_access_token_for_user_id(p, user_id, device_id, nonce) ==
    LET req == [op |-> "get_access_token_for_user_id", user_id |-> user_id,
                device_id |-> device_id]
        access_token == generate_access_token(user_id, <<>>, nonce)
    IN
    /\ calls[p].pc \in {"idle", "login"}
    /\ returned = NoResult
    /\ IF access_token \in DOMAIN access_tokens
       THEN /\ Done(p, Raise(IntegrityError), req, [access_token |-> access_token])
            /\ UNCHANGED access_tokens
       ELSE /\ access_tokens' = add_access_token_to_user(access_tokens, pushers, user_id,
                                                         access_token, device_id)
            /\ IF device_id = None
               THEN Done(p, Return(access_token), req, [access_token |-> access_token])
               ELSE /\ calls' = [calls EXCEPT ![p] =
                                    [pc |-> "get_device", req |-> req,
                                     access_token |-> access_token]]
                    /\ UNCHANGED returned
    /\ UNCHANGED <<now, sessions, heap, password_enabled, password_providers, users,
                   devices, pushers, logged_out, minted>>

\* store.get_device answers
get_device_answered(p) ==
    /\ calls[p].pc = "get_device"
    /\ LET c == calls[p]
       IN  IF get_device(devices, c.req.user_id, c.req.device_id)
           THEN Done(p, Return(c.access_token), c.req, [access_token |-> c.access_token])
           ELSE /\ calls' = [calls EXCEPT ![p] = [c EXCEPT !.pc = "raced"]]
                /\ UNCHANGED returned
    /\ UNCHANGED <<now, sessions, heap, password_enabled, password_providers, users,
                   store_vars>>

\* the except clause: the token is deleted and the login fails
get_access_token_raced(p) ==
    /\ calls[p].pc = "raced"
    /\ LET c == calls[p]
       IN  /\ access_tokens' = raced_cleanup(access_tokens, c.access_token)
           /\ Done(p, Raise(StoreError(400, "Login raced against device deletion")),
                   c.req, [access_token |-> c.access_token])
    /\ UNCHANGED <<now, sessions, heap, password_enabled, password_providers, users,
                   devices, pushers, logged_out, minted>>

\* Another request deletes, or stores, a device record.
device_deleted(user_id, device_id) ==
    /\ <<user_id, device_id>> \in devices
    /\ devices' = devices \ {<<user_id, device_id>>}
    /\ UNCHANGED <<now, sessions, heap, calls, returned, password_enabled,
                   password_providers, users, access_tokens, pushers, logged_out, minted>>
device_stored(user_id, device_id) ==
    /\ <<user_id, device_id>> \notin devices
    /\ devices' = devices \cup {<<user_id, device_id>>}
    /\ UNCHANGED <<now, sessions, heap, calls, returned, password_enabled,
                   password_providers, users, access_tokens, pushers, logged_out, minted>>

\* The orders in which the store may list a set of rows.
Orderings(S) ==
    {s \in [1..Cardinality(S) -> S] : \A i, j \in 1..Cardinality(S) : s[i] = s[j] => i = j}

\* The rows store.user_delete_access_tokens(user_id, except_token_id, device_id)
\* deletes; except_token_id and device_id are <<>> and None when not given
deleted_tokens(tokens, user_id, except_token_id, device_id) ==
    {t \in DOMAIN tokens :
        /\ tokens[t].user_id = user_id
        /\ \A e \in Range(except_token_id) : tokens[t].id # e
        /\ device_id = None \/ tokens[t].device_id = device_id}

\* The (token, device_id) pairs of those rows, with the user notified for each.
tokens_and_devices_of(tokens, S) ==
    {[token |-> t, device_id |-> tokens[t].device_id, user_id |-> tokens[t].user_id] : t \in S}

\* A next provider chosen without asking whether it has on_logged_out.
next_provider_any(i) ==
    IF i <= Len(password_providers) THEN i ELSE 0

\* for provider in self.password_providers: if hasattr(provider, "on_logged_out"):
\* the first provider from the i-th on that has the callback, 0 when none has
next_provider(i) ==
    LET having == {k \in i..Len(password_providers) :
                      Has(password_providers[k], "on_logged_out")}
    IN  IF having = {} THEN 0 ELSE CHOOSE k \in having : \A l \in having : k <= l

\* delete_access_tokens_for_user(user_id, except_token_id, device_id) up to the
\* answer of store.user_delete_access_tokens
delete_access_tokens_for_user(p, user_id, except_token_id, device_id) ==
    LET req == [op |-> "delete_access_tokens_for_user", user_id |-> user_id,
                except_token_id |-> except_token_id, device_id |-> device_id]
        S == deleted_tokens(access_tokens, user_id, except_token_id, device_id)
    IN
    /\ calls[p].pc = "idle"
    /\ returned = NoResult
    /\ \E tokens_and_devices \in Orderings(tokens_and_devices_of(access_tokens, S)) :
          calls' = [calls EXCEPT ![p] =
                       [pc |-> "on_logged_out", req |-> req,
                        tokens_and_devices |-> tokens_and_devices,
                        i |-> 1, j |-> 1, then |-> "return"]]
    /\ access_tokens' = [t \in DOMAIN access_tokens \ S |-> access_tokens[t]]
    /\ logged_out' = <<>>
    /\ UNCHANGED <<now, sessions, heap, returned, password_enabled, password_providers,
                   users, devices, pushers, minted>>

\* delete_access_token(access_token) up to the answer of store.delete_access_token
delete_access_token(p, access_token) ==
    LET req == [op |-> "delete_access_token", access_token |-> access_token]
    IN
    /\ calls[p].pc = "idle"
    /\ returned = NoResult
    /\ IF access_token \notin DOMAIN access_tokens
       THEN /\ Done(p, Raise(AuthError(401, "Unrecognised access token.", UNKNOWN_TOKEN)),
                    req, [tokens_and_devices |-> <<>>])
            /\ UNCHANGED <<access_tokens, logged_out>>
       ELSE /\ calls' = [calls EXCEPT ![p] =
                            [pc |-> "on_logged_out", req |-> req,
                             tokens_and_devices |->
                                 <<[token |-> access_token,
                                    device_id |-> access_tokens[access_token].device_id,
                                    user_id |-> access_tokens[access_token].user_id]>>,
                             i |-> 1, j |-> 1, then |-> "return"]]
            /\ access_tokens' = store_delete_access_token(access_tokens, access_token)
            /\ logged_out' = <<>>
            /\ UNCHANGED returned
    /\ UNCHANGED <<now, sessions, heap, password_enabled, password_providers, users,
                   devices, pushers, minted>>

\* One turn of the loops over the providers and the deleted tokens: the next
\* provider.on_logged_out call, which returns or raises; or the loops' end.
on_logged_out(p) ==
    /\ calls[p].pc = "on_logged_out"
    /\ LET c == calls[p]
           k == IF c.tokens_and_devices = <<>> THEN 0 ELSE next_provider(c.i)
       IN  IF k = 0
           THEN /\ IF c.then = "return"
                   THEN Done(p, Return(None), c.req,
                             [tokens_and_devices |-> c.tokens_and_devices])
                   ELSE /\ calls' = [calls EXCEPT ![p] = [c EXCEPT !.pc = c.then]]
                        /\ UNCHANGED returned
                /\ UNCHANGED logged_out
           ELSE \E ok \in BOOLEAN :
                   IF ok
                   THEN /\ logged_out' =
                               Append(logged_out,
                                      [provider |-> k,
                                       user_id |-> c.tokens_and_devices[c.j].user_id,
                                       device_id |-> c.tokens_and_devices[c.j].device_id,
                                       access_token |-> c.tokens_and_devices[c.j].token])
                        /\ calls' = [calls EXCEPT ![p] =
                                        IF c.j < Len(c.tokens_and_devices)
                                        THEN [c EXCEPT !.i = k, !.j = c.j + 1]
                                        ELSE [c EXCEPT !.i = k + 1, !.j = 1]]
                        /\ UNCHANGED returned
                   ELSE /\ Done(p, Raise(ProviderError), c.req,
                                [tokens_and_devices |-> c.tokens_and_devices])
                        /\ UNCHANGED logged_out
    /\ UNCHANGED <<now, sessions, heap, password_enabled, password_providers, users,
                   access_tokens, devices, pushers, minted>>

\* pusherpool.remove_pushers_by_user(user_id, except_access_token_id)
remove_pushers_by_user(ps, user_id, except_access_token_id) ==
    {q \in ps : q.user_id # user_id \/ q.access_token \in Range(except_access_token_id)}

\* The password hash set_password stores.
new_password_hash(newpassword) == hash(newpassword, "s2")

\* The StoreError store.user_set_password_hash(user_id, password_hash) raises,
\* if any: 404 when the user has no row; store_fails is any other failure
user_set_password_hash_error(us, user_id, store_fails) ==
    IF ~Has(us, user_id) THEN <<StoreError(404, "No row found")>>
    ELSE IF store_fails THEN <<StoreError(500, "Internal server error")>>
    ELSE <<>>

\* The store's error raised as it came.
set_password_error_raw(e) == e

\* except StoreError as e: if e.code == 404: raise SynapseError(...); raise e
set_password_error(e) ==
    IF e.code = 404 THEN SynapseErrorWith(404, "Unknown user", NOT_FOUND) ELSE e

\* set_password(user_id, newpassword, requester) up to the answer of
\* store.user_set_password_hash; store_fails is a failure of the store other
\* than the missing user; requester is <<>> or <<access_token_id>>
set_password(p, user_id, newpassword, requester, store_fails) ==
    LET req == [op |-> "set_password", user_id |-> user_id, requester |-> requester]
    IN
    /\ calls[p].pc = "idle"
    /\ returned = NoResult
    /\ IF Len(user_set_password_hash_error(users, user_id, store_fails)) > 0
       THEN /\ Done(p, Raise(set_password_error(
                                 user_set_password_hash_error(users, user_id, store_fails)[1])),
                    req, [tokens_and_devices |-> <<>>])
            /\ UNCHANGED users
       ELSE /\ users' = Put(users, user_id, new_password_hash(newpassword))
            /\ calls' = [calls EXCEPT ![p] = [pc |-> "delete_tokens", req |-> req]]
            /\ UNCHANGED returned
    /\ logged_out' = <<>>
    /\ UNCHANGED <<now, sessions, heap, password_enabled, password_providers,
                   access_tokens, devices, pushers, minted>>

\* set_password: yield self.delete_access_tokens_for_user(
\*     user_id, except_token_id=except_access_token_id)
set_password_delete_tokens(p) ==
    /\ calls[p].pc = "delete_tokens"
    /\ LET c == calls[p]
           S == deleted_tokens(access_tokens, c.req.user_id, c.req.requester, None)
       IN  /\ \E tokens_and_devices \in Orderings(tokens_and_devices_of(access_tokens, S)) :
                 calls' = [calls EXCEPT ![p] =
                              [pc |-> "on_logged_out", req |-> c.req,
                               tokens_and_devices |-> tokens_and_devices,
                               i |-> 1, j |-> 1, then |-> "remove_pushers"]]
           /\ access_tokens' = [t \in DOMAIN access_tokens \ S |-> access_tokens[t]]
    /\ UNCHANGED <<now, sessions, heap, returned, password_enabled, password_providers,
                   users, devices, pushers, logged_out, minted>>

\* set_password: yield self.hs.get_pusherpool().remove_pushers_by_user(...)
set_password_remove_pushers(p) ==
    /\ calls[p].pc = "remove_pushers"
    /\ LET c == calls[p]
       IN  /\ pushers' = remove_pushers_by_user(pushers, c.req.user_id, c.req.requester)
           /\ Done(p, Return(None), c.req, [tokens_and_devices |-> c.tokens_and_devices])
    /\ UNCHANGED <<now, sessions, heap, password_enabled, password_providers, users,
                   access_tokens, devices, logged_out, minted>>

(* The specification of the token store's handlers: one caller at a time,  *)
(* device records deleted and stored meanwhile.                            *)

ALICE == "@alice:hs"
BOB == "@bob:hs"
CAROL == "@carol:hs"
DEVICE == "dev1"

DeviceProviderLists ==
    {<<>>, <<ProviderPassword>>, <<ProviderBoth, ProviderPassword, ProviderPartial>>}

InitialTokens ==
    add_access_token_to_user(
        add_access_token_to_user(EmptyDict, {}, BOB,
                                 generate_access_token(BOB, <<>>, "n1"), DEVICE),
        {}, ALICE, generate_access_token(ALICE, <<>>, "n0"), DEVICE)

InitDevices ==
    /\ now = 0
    /\ sessions = EmptyDict
    /\ heap = EmptyDict
    /\ calls = [p \in Procs |-> Idle]
    /\ returned = NoResult
    /\ password_enabled = TRUE
    /\ password_providers \in DeviceProviderLists
    /\ users = Put(EmptyDict, ALICE, hash("pw1", "s1"))
    /\ access_tokens = InitialTokens
    /\ devices = {<<ALICE, DEVICE>>, <<BOB, DEVICE>>}
    /\ pushers = {[user_id |-> ALICE,
                   access_token |-> InitialTokens[generate_access_token(ALICE, <<>>, "n0")].id],
                  [user_id |-> BOB,
                   access_token |-> InitialTokens[generate_access_token(BOB, <<>>, "n1")].id]}
    /\ logged_out = <<>>
    /\ minted = {}

DeviceIds == {DEVICE, None}
TokenIdArgs == {<<>>, <<1>>, <<2>>}
KnownTokens ==
    {generate_access_token(u, <<>>, n) : u \in {ALICE, BOB}, n \in {"n0", "n1"}}

NextDevices ==
    \/ \E device_id \in DeviceIds, nonce \in Nonces :
          get_access_token_for_user_id("p1", ALICE, device_id, nonce)
    \/ get_device_answered("p1")
    \/ get_access_token_raced("p1")
    \/ device_deleted(ALICE, DEVICE)
    \/ device_stored(ALICE, DEVICE)
    \/ \E except_token_id \in TokenIdArgs, device_id \in DeviceIds :
          delete_access_tokens_for_user("p1", ALICE, except_token_id, device_id)
    \/ \E access_token \in KnownTokens : delete_access_token("p1", access_token)
    \/ on_logged_out("p1")
    \/ \E user_id \in {ALICE, CAROL}, requester \in TokenIdArgs, store_fails \in BOOLEAN :
          set_password("p1", user_id, "pw2", requester, store_fails)
    \/ set_password_delete_tokens("p1")
    \/ set_password_remove_pushers("p1")
    \/ Taken

SpecDevices == InitDevices /\ [][NextDevices]_vars

-----------------------------------------------------------------------------
(* The server-side data of a session: set_session_data, get_session_data   *)

\* sess.setdefault('serverdict', {})
setdefault_serverdict(sess) ==
    IF Has(sess, "serverdict") THEN sess ELSE Put(sess, "serverdict", EmptyDict)

\* The default returned whatever is stored.
session_data_default(sess, key, default) == default

\* sess.setdefault('serverdict', {}).get(key, default)
session_data(sess, key, default) ==
    IF Has(setdefault_serverdict(sess).serverdict, key)
    THEN setdefault_serverdict(sess).serverdict[key]
    ELSE default

\* A synchronous call ends: its result goes to the caller.
Answer(st, outcome, req) ==
    /\ sessions' = st.sessions
    /\ heap' = Collect(st.heap, st.sessions, Held(calls))
    /\ returned' = [op |-> req.op, req |-> req, kind |-> outcome.kind,
                    value |-> IF outcome.kind = "return" THEN outcome.value ELSE outcome.exc]
    /\ UNCHANGED <<now, calls, password_enabled, password_providers, users, store_vars>>

\* set_session_data(session_id, key, value)
set_session_data(session_id, key, value, fresh_id) ==
    LET req == [op |-> "set_session_data", session_id |-> session_id, key |-> key,
                value |-> value]
        got == _get_session_info([sessions |-> sessions, heap |-> heap], session_id,
                                 fresh_id, now)
        ref == got.session
        sess == setdefault_serverdict(got.heap[ref])
        stored == Put(sess, "serverdict", Put(sess.serverdict, key, value))
    IN
    /\ returned = NoResult
    /\ fresh_id \in FreshIds(session_id)
    /\ Answer(_save_session([sessions |-> got.sessions,
                             heap |-> Put(got.heap, ref, stored)], ref, now),
              Return(None), req)

\* get_session_data(session_id, key, default)
get_session_data(session_id, key, default, fresh_id) ==
    LET req == [op |-> "get_session_data", session_id |-> session_id, key |-> key,
                default |-> default]
        got == _get_session_info([sessions |-> sessions, heap |-> heap], session_id,
                                 fresh_id, now)
        ref == got.session
    IN
    /\ returned = NoResult
    /\ fresh_id \in FreshIds(session_id)
    /\ Answer([sessions |-> got.sessions,
               heap |-> Put(got.heap, ref, setdefault_serverdict(got.heap[ref]))],
              Return(session_data(got.heap[ref], key, default)), req)

(* SpecData: check_auth and add_oob_auth requests for the dummy stage and  *)
(* the callers' set_session_data and get_session_data, also while a        *)
(* request waits for its checker.                                          *)

DataKeys == {"k1", "k2"}
DataValues == {"d1", "d2"}
DataDefaults == {None, "dflt"}
DataParams == {EmptyDict, [x |-> "v1"]}

NextData ==
    \/ /\ Quiet
       /\ \E flows \in SessionFlowLists,
             body \in ClientDicts(DataParams, AuthDicts(ClientSids, SessionStageTypes)),
             fresh_id \in GeneratedIds \cup {None} :
                check_auth("p1", flows, body, fresh_id)
    \/ check_auth_resume("p1")
    \/ /\ Quiet
       /\ \E stagetype \in SessionStageTypes, fresh_id \in GeneratedIds \cup {None} :
            \E authdict \in OobAuthDicts(ClientSids, stagetype) :
                add_oob_auth("p1", stagetype, authdict, fresh_id)
    \/ add_oob_auth_resume("p1")
    \/ \E session_id \in ClientSids, key \in DataKeys, value \in DataValues,
          fresh_id \in GeneratedIds \cup {None} :
            set_session_data(session_id, key, value, fresh_id)
    \/ \E session_id \in ClientSids, key \in DataKeys, default \in DataDefaults,
          fresh_id \in GeneratedIds \cup {None} :
            get_session_data(session_id, key, default, fresh_id)
    \/ Deliver
    \/ Tick

SpecData == Init /\ [][NextData]_vars

-----------------------------------------------------------------------------
(* deactivate_account, and a password login running beside it *)

\* deactivate_account(user_id) up to the answer of
\* store.user_delete_access_tokens
deactivate_account(p, user_id) ==
    LET req == [op |-> "deactivate_account", user_id |-> user_id]
        S == deleted_tokens(access_tokens, user_id, <<>>, None)
    IN
    /\ calls[p].pc = "idle"
    /\ returned = NoResult
    /\ \E tokens_and_devices \in Orderings(tokens_and_devices_of(access_tokens, S)) :
          calls' = [calls EXCEPT ![p] =
                       [pc |-> "on_logged_out", req |-> req,
                        tokens_and_devices |-> tokens_and_devices,
                        i |-> 1, j |-> 1, then |-> "delete_threepids"]]
    /\ access_tokens' = [t \in DOMAIN access_tokens \ S |-> access_tokens[t]]
    /\ logged_out' = <<>>
    /\ UNCHANGED <<now, sessions, heap, returned, password_enabled, password_providers,
                   users, devices, pushers, minted>>

\* deactivate_account: yield self.store.user_delete_threepids(user_id)
deactivate_delete_threepids(p) ==
    /\ calls[p].pc = "delete_threepids"
    /\ calls' = [calls EXCEPT ![p] = [@ EXCEPT !.pc = "set_password_hash"]]
    /\ UNCHANGED <<now, sessions, heap, returned, password_enabled, password_providers,
                   users, store_vars>>

\* deactivate_account: yield self.store.user_set_password_hash(user_id, None)
deactivate_set_password_hash(p) ==
    /\ calls[p].pc = "set_password_hash"
    /\ LET c == calls[p]
           error == user_set_password_hash_error(users, c.req.user_id, FALSE)
       IN  IF Len(error) > 0
           THEN /\ Done(p, Raise(error[1]), c.req,
                        [tokens_and_devices |-> c.tokens_and_devices])
                /\ UNCHANGED users
           ELSE /\ users' = Put(users, c.req.user_id, <<>>)
                /\ Done(p, Return(None), c.req,
                        [tokens_and_devices |-> c.tokens_and_devices])
    /\ UNCHANGED <<now, sessions, heap, password_enabled, password_providers,
                   store_vars>>

\* The login request in slot p takes the user id validate_login returned
\* and goes on to get_access_token_for_user_id.
login_validated(p) ==
    /\ calls[p].pc = "idle"
    /\ returned.op = "validate_login"
    /\ returned.kind = "return"
    /\ calls' = [calls EXCEPT ![p] = [pc |-> "login", user_id |-> returned.value[1]]]
    /\ returned' = NoResult
    /\ UNCHANGED <<now, sessions, heap, password_enabled, password_providers, users,
                   store_vars>>

(* SpecDeactivate: slot p1 deactivates the account while slot p2 logs in   *)
(* with a password.                                                        *)

DeactivateSubmissions ==
    {[type |-> PASSWORD, password |-> "pw1"], [type |-> PASSWORD, password |-> "bad"]}

NextDeactivate ==
    \/ deactivate_account("p1", ALICE)
    \/ on_logged_out("p1")
    \/ deactivate_delete_threepids("p1")
    \/ deactivate_set_password_hash("p1")
    \/ \E login_submission \in DeactivateSubmissions :
          validate_login_begin("p2", "alice", login_submission)
    \/ validate_login_provider("p2")
    \/ validate_login_local("p2")
    \/ login_validated("p2")
    \/ /\ calls["p2"].pc = "login"
       /\ \E device_id \in DeviceIds, nonce \in Nonces :
             get_access_token_for_user_id("p2", calls["p2"].user_id, device_id, nonce)
    \/ get_device_answered("p2")
    \/ get_access_token_raced("p2")
    \/ device_deleted(ALICE, DEVICE)
    \/ device_stored(ALICE, DEVICE)
    \/ Taken

SpecDeactivate == InitDevices /\ [][NextDeactivate]_vars

-----------------------------------------------------------------------------
(* SpecOverlap: two check_auth requests at a time, each of which may wait  *)
(* for its checker while the other begins, ends or the clock advances.     *)

OverlapFlowLists == { << <<DUMMY, PASSWORD>> >>, << <<DUMMY, PASSWORD, MSISDN>> >> }
OverlapStageTypes == {DUMMY, PASSWORD}

NextOverlap ==
    \/ \E p \in Procs :
        \E flows \in OverlapFlowLists,
           body \in ClientDicts({EmptyDict}, AuthDicts(GeneratedIds, OverlapStageTypes)),
           fresh_id \in GeneratedIds \cup {None} :
                check_auth(p, flows, body, fresh_id)
    \/ \E p \in Procs : check_auth_resume(p)
    \/ Deliver
    \/ Tick

SpecOverlap == Init /\ [][NextOverlap]_vars

-----------------------------------------------------------------------------
(* What the claims speak of *)

\* The last result is a check_auth that returned / a handler that raised.
CheckAuthReturned == returned.op = "check_auth" /\ returned.kind = "return"
CheckAuthRaised == returned.op = "check_auth" /\ returned.kind = "raise"

\* The auth block of a check_auth request body; <<>> when it has none.
AuthBlock(body) ==
    IF Len(body) = 1 /\ Has(body[1], "auth") THEN body[1].auth ELSE EmptyDict

\* The client parameters of a check_auth request body.
CarriedParams(body) ==
    IF Len(body) = 0 THEN EmptyDict
    ELSE IF Has(body[1], "auth") THEN Del(body[1], "auth") ELSE body[1]

\* The stage type a request presents; None when it presents none.
StageOf(req) ==
    IF req.op = "add_oob_auth" THEN req.stagetype
    ELSE IF Has(AuthBlock(req.clientdict), "type") THEN AuthBlock(req.clientdict).type
    ELSE None

\* The session id a request presents; None when it presents none.
PresentedSid(req) ==
    LET a == IF req.op = "add_oob_auth" THEN req.authdict ELSE AuthBlock(req.clientdict)
    IN  IF Has(a, "session") THEN a.session ELSE None

\* The credentials of a session dict, {} while it has none.
CredsOf(session) == IF Has(session, "creds") THEN session.creds ELSE EmptyDict

\* The stage types recorded for the session a check_auth result names: read
\* from the store, or from the result when the session has left the store.
RecordedStages ==
    LET v == returned.value
    IN  IF v.session_id \in DOMAIN sessions
        THEN Keys(CredsOf(heap[sessions[v.session_id].value]))
        ELSE IF v.authed THEN Keys(v.result)
        ELSE IF Has(v.result, "completed") THEN v.result.completed
        ELSE {}

\* The 48 hours of the session store.
FORTY_EIGHT_HOURS == 48 * 60 * 60 * 1000

\* Some offered flow has all its stage types among keys.
SomeFlowWithin(flows, keys) == \E i \in DOMAIN flows : Range(flows[i]) \subseteq keys

-----------------------------------------------------------------------------
\* C1 (as stated): every check_auth call that returns reports completed=true
\* if and only if some offered flow has all its stage types among the keys
\* of the session's credentials.
C1_CompletedIffFlowSatisfied ==
    CheckAuthReturned =>
        (returned.value.authed <=> SomeFlowWithin(returned.req.flows, RecordedStages))

\* C1 (amended): a check_auth call that returns reports completed=true if
\* and only if it carried a non-empty auth block and some offered flow has
\* all its stage types among the keys of the session's credentials, in
\* whatever order they were recorded; the credentials it then returns are
\* the session's.
C1_CompletedIffAuthAndFlowSatisfied ==
    CheckAuthReturned =>
        /\ returned.value.authed <=>
              /\ DOMAIN AuthBlock(returned.req.clientdict) # {}
              /\ SomeFlowWithin(returned.req.flows, RecordedStages)
        /\ returned.value.authed => Keys(returned.value.result) = RecordedStages

\* C1 witness: the flow <<DUMMY, PASSWORD>> completed by a dummy stage that
\* came after the password stage.
C1_Witness ==
    /\ CheckAuthReturned
    /\ returned.value.authed
    /\ StageOf(returned.req) = DUMMY
    /\ returned.req.flows = << <<RECAPTCHA, MSISDN>>, <<DUMMY, PASSWORD>> >>
    /\ Keys(returned.value.result) = {DUMMY, PASSWORD}

\* C2: the stage types recorded in a session never shrink, whatever a call
\* does; a recorded result changes, and a stage type appears, only as the
\* stage the call ending in that step presented.
C2_CredsOnlyGrow ==
    [][\A ref \in DOMAIN heap \cap DOMAIN heap' :
        LET before == CredsOf(heap[ref])
            after == CredsOf(heap'[ref])
        IN  /\ Keys(before) \subseteq Keys(after)
            /\ \A k \in Keys(after) :
                (k \notin Keys(before) \/ after[k] # before[k]) =>
                    /\ returned' # NoResult
                    /\ returned'.kind = "return"
                    /\ StageOf(returned'.req) = k]_vars

\* C2 witness: a stage failed or was not recognized on a session that keeps
\* two recorded stages.
C2_Witness ==
    /\ returned.op \in {"check_auth", "add_oob_auth"}
    /\ returned.kind = "raise"
    /\ PresentedSid(returned.req) \in DOMAIN sessions
    /\ Cardinality(Keys(CredsOf(heap[sessions[PresentedSid(returned.req)].value]))) >= 2

-----------------------------------------------------------------------------
\* C3: a session that _get_session_info creates gets an id under which no
\* session is live at that moment, and every live session stays stored, the
\* same dict, under its id.
C3_FreshIdNotLive ==
    [][\A ref \in DOMAIN heap' \ DOMAIN heap :
        /\ ~(heap'[ref].id \in DOMAIN sessions
             /\ now - sessions[heap'[ref].id].time < FORTY_EIGHT_HOURS)
        /\ \A id \in DOMAIN sessions :
            now - sessions[id].time < FORTY_EIGHT_HOURS =>
                /\ id \in DOMAIN sessions'
                /\ sessions'[id].value = sessions[id].value
                /\ heap'[sessions'[id].value].id = id]_vars

\* C3 witness: a session was created while another one was live.
C3_Witness ==
    /\ Cardinality(DOMAIN sessions) = 2
    /\ \A id \in DOMAIN sessions : now - sessions[id].time < FORTY_EIGHT_HOURS
    /\ \E a, b \in DOMAIN sessions : sessions[a].time < sessions[b].time

-----------------------------------------------------------------------------
\* C4 (as stated): a check_auth call whose body is {auth: {type: dummy}}
\* returns an incomplete response without a 'completed' field, and a call
\* that presents a session id and the dummy type against the flows
\* [[dummy]] completes with dummy: true among the credentials.
C4_FirstDummyCallIncomplete ==
    (CheckAuthReturned /\ StageOf(returned.req) = DUMMY) =>
        /\ returned.req.clientdict = << [auth |-> [type |-> DUMMY]] >> =>
              /\ ~returned.value.authed
              /\ ~Has(returned.value.result, "completed")
        /\ (PresentedSid(returned.req) # None
            /\ returned.req.flows = << <<DUMMY>> >>) =>
              /\ returned.value.authed
              /\ returned.value.result[DUMMY] = TRUE

\* C4 (amended): a check_auth call that presents the dummy stage always
\* returns.  When its body is {auth: {type: dummy}}, with no session, it
\* completes at once with the credentials {dummy: true} under a session id
\* of the server if dummy alone satisfies an offered flow, and else returns
\* an incomplete response with that id, the flows and completed = [dummy].
\* A call that presents the dummy stage, with or without a session id,
\* against the flows [[dummy]] completes with dummy: true among the
\* credentials.
C4_DummyCompletesAtOnce ==
    (returned.op = "check_auth" /\ StageOf(returned.req) = DUMMY) =>
        /\ returned.kind = "return"
        /\ returned.req.clientdict = << [auth |-> [type |-> DUMMY]] >> =>
              /\ returned.value.session_id \in SessionIds
              /\ IF SomeFlowWithin(returned.req.flows, {DUMMY})
                 THEN /\ returned.value.authed
                      /\ returned.value.result = (DUMMY :> TRUE)
                 ELSE /\ ~returned.value.authed
                      /\ returned.value.result.session = returned.value.session_id
                      /\ returned.value.result.flows =
                            [i \in DOMAIN returned.req.flows |->
                                [stages |-> returned.req.flows[i]]]
                      /\ returned.value.result.completed = {DUMMY}
        /\ returned.req.flows = << <<DUMMY>> >> =>
              /\ returned.value.authed
              /\ returned.value.result[DUMMY] = TRUE

\* C4 witness: the second call of the scenario, which presents the session
\* of the first and completes with exactly {dummy: true}.
C4_Witness ==
    /\ CheckAuthReturned
    /\ returned.req.clientdict = << [auth |-> [session |-> "sidA", type |-> DUMMY]] >>
    /\ returned.req.flows = << <<DUMMY>> >>
    /\ returned.value.authed
    /\ returned.value.session_id = "sidA"
    /\ returned.value.result = (DUMMY :> TRUE)

-----------------------------------------------------------------------------
\* A step in which slot p1's handler starts, and one in which it ends.
Begins == calls["p1"].pc = "idle" /\ (calls'["p1"].pc = "checker" \/ returned' # NoResult)
Resumes == calls["p1"].pc = "checker" /\ calls'["p1"].pc = "idle"

\* C5: a check_auth call that presents the email-possession stage either
\* raises the checker's LoginError, and then no session's credentials have
\* changed, or returns with the stage recorded and no error folded into the
\* response; starting the call changes no credentials either.
C5_EmailFailureRaised ==
    [][/\ (Resumes /\ returned'.op = "check_auth"
                   /\ StageOf(returned'.req) = EMAIL_IDENTITY) =>
            \/ /\ returned'.kind = "raise"
               /\ returned'.value.type = "LoginError"
               /\ \A ref \in DOMAIN heap \cap DOMAIN heap' :
                    CredsOf(heap'[ref]) = CredsOf(heap[ref])
            \/ /\ returned'.kind = "return"
               /\ ~Has(returned'.value.result, "errcode")
               /\ ~Has(returned'.value.result, "error")
               /\ EMAIL_IDENTITY \in
                    (IF returned'.value.authed THEN Keys(returned'.value.result)
                     ELSE returned'.value.result.completed)
       /\ (Begins /\ calls'["p1"].pc = "checker"
                  /\ StageOf(calls'["p1"].req) = EMAIL_IDENTITY) =>
            \A ref \in DOMAIN heap \cap DOMAIN heap' :
                CredsOf(heap'[ref]) = CredsOf(heap[ref])]_vars

\* C5 witness: the email-possession checker failed on a live session that
\* has a stage recorded.
C5_Witness ==
    /\ CheckAuthRaised
    /\ StageOf(returned.req) = EMAIL_IDENTITY
    /\ returned.value.type = "LoginError"
    /\ PresentedSid(returned.req) \in DOMAIN sessions
    /\ Keys(CredsOf(heap[sessions[PresentedSid(returned.req)].value])) # {}

-----------------------------------------------------------------------------
\* C6: a check_auth call that presents a registered stage other than
\* email-possession never fails: it returns, a failure of the checker being
\* folded into the response.
C6_OtherStageFailuresFolded ==
    (returned.op = "check_auth"
        /\ StageOf(returned.req) \in {PASSWORD, RECAPTCHA, MSISDN, DUMMY}) =>
        returned.kind = "return"

-----------------------------------------------------------------------------
\* The request a step starts, the session dict the started handler works
\* on, and the client parameters it goes on with.
StartedReq == IF calls'["p1"].pc = "checker" THEN calls'["p1"].req ELSE returned'.req
StartedSession ==
    IF calls'["p1"].pc = "checker" THEN calls'["p1"].session
    ELSE sessions'[returned'.value.session_id].value
StartedClientdict ==
    IF calls'["p1"].pc = "checker" THEN calls'["p1"].clientdict
    ELSE returned'.value.clientdict
StartsCheckAuth ==
    /\ Begins
    /\ StartedReq.op = "check_auth"
    /\ calls'["p1"].pc = "checker" \/ returned'.kind = "return"
LiveBefore(id) ==
    id \in DOMAIN sessions /\ now - sessions[id].time < FORTY_EIGHT_HOURS

\* C7: a check_auth call that carries non-empty client parameters stores
\* them on its session in place of the earlier copy and goes on with, and
\* returns, its own; a call that carries none on a live session that has a
\* copy goes on with, and returns, that copy; and the copy stored on a
\* session changes in no other step.
C7_ClientdictKeptAndReplaced ==
    [][/\ StartsCheckAuth =>
            LET carried == CarriedParams(StartedReq.clientdict)
                sid == PresentedSid(StartedReq)
            IN  /\ DOMAIN carried # {} =>
                    /\ StartedClientdict = carried
                    /\ heap'[StartedSession].clientdict = carried
                /\ (DOMAIN carried = {} /\ LiveBefore(sid)
                        /\ Has(heap[sessions[sid].value], "clientdict")) =>
                    /\ StartedSession = sessions[sid].value
                    /\ StartedClientdict = heap[sessions[sid].value].clientdict
                    /\ heap'[StartedSession].clientdict = StartedClientdict
       /\ (Resumes /\ returned'.op = "check_auth" /\ returned'.kind = "return") =>
            returned'.value.clientdict = calls["p1"].clientdict
       /\ \A ref \in DOMAIN heap \cap DOMAIN heap' :
            (Has(heap[ref], "clientdict") /\ heap'[ref] # heap[ref]) =>
                /\ Has(heap'[ref], "clientdict")
                /\ heap'[ref].clientdict # heap[ref].clientdict =>
                     /\ StartsCheckAuth
                     /\ ref = StartedSession
                     /\ DOMAIN CarriedParams(StartedReq.clientdict) # {}]_vars

\* C7 witness: a call that carried no parameters returned the parameters of
\* the second of two earlier calls on its session.
C7_Witness ==
    /\ CheckAuthReturned
    /\ PresentedSid(returned.req) = returned.value.session_id
    /\ DOMAIN CarriedParams(returned.req.clientdict) = {}
    /\ returned.value.clientdict = [x |-> "v2"]
    /\ heap[sessions[returned.value.session_id].value].clientdict = [x |-> "v2"]
    /\ now >= TICK_MS

-----------------------------------------------------------------------------
\* C8: every stored session was accessed less than 48 hours ago; a session
\* accessed less than 48 hours ago stays stored; a handler that starts on a
\* session, or saves one, restarts its 48 hours; a request that presents the id of a
\* session accessed less than 48 hours ago works on that session, and one
\* that presents any other id works on a new session with no credentials.
C8_SlidingExpiry ==
    [][/\ \A id \in DOMAIN sessions' : now' - sessions'[id].time < FORTY_EIGHT_HOURS
       /\ \A id \in DOMAIN sessions :
            now' - sessions[id].time < FORTY_EIGHT_HOURS =>
                /\ id \in DOMAIN sessions'
                /\ sessions'[id].time >= sessions[id].time
       /\ \A ref \in DOMAIN heap \cap DOMAIN heap' :
            heap'[ref] # heap[ref] =>
                /\ heap'[ref].id \in DOMAIN sessions'
                /\ sessions'[heap'[ref].id].time = now'
                /\ sessions'[heap'[ref].id].value = ref
       /\ StartsCheckAuth =>
            LET sid == PresentedSid(StartedReq) IN
            /\ sessions'[heap'[StartedSession].id].time = now'
            /\ sessions'[heap'[StartedSession].id].value = StartedSession
            /\ IF LiveBefore(sid)
               THEN StartedSession = sessions[sid].value
               ELSE /\ StartedSession \notin DOMAIN heap
                    /\ calls'["p1"].pc = "checker" =>
                         Keys(CredsOf(heap'[StartedSession])) = {}]_vars

\* C8 witness: 48 hours after the last access of the only session, a
\* request that presented an id was answered under a session created at
\* that moment.
C8_Witness ==
    /\ CheckAuthReturned
    /\ now >= FORTY_EIGHT_HOURS
    /\ PresentedSid(returned.req) # None
    /\ DOMAIN sessions = {returned.value.session_id}
    /\ sessions[returned.value.session_id].time = now
    /\ DOMAIN heap = {sessions[returned.value.session_id].value}
    /\ ~Has(heap[sessions[returned.value.session_id].value], "last_used")

-----------------------------------------------------------------------------
\* C9: whenever add_oob_auth returns true, a session is live under the id
\* authdict['session'] names and its credentials hold the stage type.
C9_OobOnlyIntoNamedSession ==
    (returned.op = "add_oob_auth" /\ returned.kind = "return" /\ returned.value) =>
        /\ PresentedSid(returned.req) \in DOMAIN sessions
        /\ returned.req.stagetype \in
                Keys(CredsOf(heap[sessions[PresentedSid(returned.req)].value]))

-----------------------------------------------------------------------------
\* C10: check_auth and add_oob_auth reject a stage type that has no checker
\* with the error code UNRECOGNIZED.
C10_UnregisteredStageUnrecognized ==
    (returned.op \in {"check_auth", "add_oob_auth"}
        /\ StageOf(returned.req) \notin checkers \cup {None}) =>
        /\ returned.kind = "raise"
        /\ returned.value.errcode = UNRECOGNIZED

-----------------------------------------------------------------------------
\* C20: check_auth called with a null payload does not fail: it returns
\* completed=false with the id of a session, the offered flows and their
\* params.
C20_NullPayloadProbed ==
    (returned.op = "check_auth" /\ Len(returned.req.clientdict) = 0) =>
        /\ returned.kind = "return"
        /\ ~returned.value.authed
        /\ returned.value.session_id \in SessionIds
        /\ returned.value.result.session = returned.value.session_id
        /\ returned.value.result.flows =
                [i \in DOMAIN returned.req.flows |-> [stages |-> returned.req.flows[i]]]
        /\ Has(returned.value.result, "params")

-----------------------------------------------------------------------------
\* What a finished validate_login was asked and how it ended.
LoginEnded == returned.op = "validate_login"
SubmittedType == Get(returned.req.login_submission, "type")
SubmittedPassword == Get(returned.req.login_submission, "password")
Supports(provider, login_type) ==
    /\ Has(provider, "get_supported_login_types")
    /\ Has(provider, "check_auth")
    /\ Has(provider.get_supported_login_types, login_type)
Recognized(login_type) ==
    \/ login_type = PASSWORD
    \/ \E i \in DOMAIN password_providers : Supports(password_providers[i], login_type)
LacksField(provider, login_submission) ==
    \E f \in Range(provider.get_supported_login_types[Get(login_submission, "type")]) :
        ~Has(login_submission, f)
IsUnknownType ==
    /\ returned.kind = "raise"
    /\ returned.value.type = "SynapseError"
    /\ returned.value.msg = "Unknown login type"
IsInvalidCredentials ==
    /\ returned.kind = "raise"
    /\ returned.value.type = "LoginError"
    /\ returned.value.code = 403
    /\ returned.value.errcode = FORBIDDEN
IsMissingParameters ==
    /\ returned.kind = "raise"
    /\ returned.value.msg = "Missing parameters for login type"
LoginPrecondition ==
    /\ password_enabled
    /\ SubmittedType = PASSWORD => SubmittedPassword \notin {None, ""}
StoredMatches(user_id) == {u \in DOMAIN users : Lower(u) = Lower(user_id)}
SomeProviderAccepts ==
    \E i \in DOMAIN password_providers :
        \/ /\ Has(password_providers[i], "check_password")
           /\ <<Qualify(returned.req.username), SubmittedPassword>>
                \in password_providers[i].check_password
        \/ /\ Supports(password_providers[i], SubmittedType)
           /\ password_providers[i].check_auth[SubmittedType] # ""

-----------------------------------------------------------------------------
\* The place of a consultation in the order of validate_login.
Rank(entry) ==
    IF entry[2] = "local" THEN 2 * (Len(password_providers) + 1)
    ELSE IF entry[2] = "check_password" THEN 2 * entry[1]
    ELSE 2 * entry[1] + 1

\* C12: in a validate_login for a password submission the providers are
\* consulted in list order and the local store last; a provider whose
\* password check accepts is the last one consulted and the result is the
\* qualified user id with no callback; every provider before the last
\* consultation was asked; and the local store is consulted only after
\* every provider declined.
C12_ProvidersFirstInOrder ==
    (LoginEnded /\ SubmittedType = PASSWORD) =>
        LET c == returned.consulted
            q == Qualify(returned.req.username)
            accepts(i) == <<q, SubmittedPassword>> \in password_providers[i].check_password
        IN  /\ \A j, k \in DOMAIN c : j < k => Rank(c[j]) < Rank(c[k])
            /\ \A j \in DOMAIN c :
                (c[j][2] = "check_password" /\ accepts(c[j][1])) =>
                    /\ j = Len(c)
                    /\ returned.kind = "return"
                    /\ returned.value = <<q, None>>
            /\ \A j \in DOMAIN c : \A i \in DOMAIN password_providers :
                (i <= c[j][1] /\ Has(password_providers[i], "check_password")) =>
                    <<i, "check_password">> \in Range(c)
            /\ \A j \in DOMAIN c :
                c[j][2] = "local" =>
                    /\ j = Len(c)
                    /\ \A i \in DOMAIN password_providers :
                        /\ Has(password_providers[i], "check_password") => ~accepts(i)
                        /\ Supports(password_providers[i], PASSWORD) =>
                            /\ <<i, "check_auth">> \in Range(c)
                            /\ password_providers[i].check_auth[PASSWORD] = ""
            /\ (LoginPrecondition /\ ~IsMissingParameters /\ returned.kind = "raise") =>
                    c # <<>> /\ c[Len(c)][2] = "local"

\* C12 witness: the first provider declined the password, the second one
\* accepted it, and the local store, which has another password for the
\* user, was not consulted.
C12_Witness ==
    /\ LoginEnded
    /\ returned.kind = "return"
    /\ returned.consulted =
            << <<1, "check_password">>, <<1, "check_auth">>, <<2, "check_password">> >>
    /\ returned.req.login_submission = [type |-> PASSWORD, password |-> "pwP"]
    /\ returned.value = <<"@alice:hs", None>>
    /\ users = ("@alice:hs" :> hash("pw1", "salt1"))

-----------------------------------------------------------------------------
-----------------------------------------------------------------------------
\* A step in which generate_access_token returns.
AccessTokenReturned ==
    returned = NoResult /\ returned' # NoResult /\ returned'.op = "generate_access_token"
EarlierCalls(req) ==
    {m \in minted : /\ m.type = "access"
                    /\ m.user_id = req.user_id
                    /\ m.extra_caveats = req.extra_caveats}

-----------------------------------------------------------------------------
\* C15: the token generate_short_term_login_token returns has the one
\* caveat time < clock at issue + duration (2 minutes when the caller gives
\* none), a deadline later than the clock at issue; and
\* validate_short_term_login_token_and_get_user_id raises the invalid-token
\* error for an issued login token when the clock has reached its deadline,
\* and returns its user id before.
C15_LoginTokenDeadline ==
    /\ returned.op = "generate_short_term_login_token" =>
        LET caveats == deserialize(returned.value).caveats
            duration == IF returned.req.duration_arg = <<>> THEN 2 * 60 * 1000
                        ELSE returned.req.duration_arg[1]
            deadlines == {i \in DOMAIN caveats : caveats[i][1] = "time <"}
        IN  /\ Cardinality(deadlines) = 1
            /\ \A i \in deadlines : caveats[i][2] = now + duration /\ caveats[i][2] > now
    /\ returned.op = "validate_short_term_login_token_and_get_user_id" =>
        \A m \in minted :
            (m.type = "login" /\ m.token = returned.req.login_token) =>
                IF now >= m.expiry
                THEN /\ returned.kind = "raise"
                     /\ returned.value = AuthError(403, "Invalid token", FORBIDDEN)
                ELSE /\ returned.kind = "return"
                     /\ returned.value = m.user_id

\* C15 witness: a login token issued with the default duration is rejected
\* at the moment the clock reaches its deadline, two minutes after issue.
C15_Witness ==
    /\ returned.op = "validate_short_term_login_token_and_get_user_id"
    /\ returned.kind = "raise"
    /\ now = 2 * 60 * 1000
    /\ \E m \in minted :
        /\ m.type = "login"
        /\ m.token = returned.req.login_token
        /\ m.expiry = now
        /\ generate_short_term_login_token(m.user_id, <<>>, 0) = m.token

RacedError == StoreError(400, "Login raced against device deletion")

IssuanceEnded(kind) ==
    /\ returned.op = "get_access_token_for_user_id"
    /\ returned.kind = kind

DeletionOps == {"delete_access_tokens_for_user", "delete_access_token"}

\* The providers that have the on_logged_out callback.
Notified == {k \in 1..Len(password_providers) : Has(password_providers[k], "on_logged_out")}

\* The calls of provider k's on_logged_out made for the removed token e.
CallsFor(log, k, e) ==
    {n \in 1..Len(log) :
        /\ log[n].provider = k
        /\ log[n].user_id = e.user_id
        /\ log[n].device_id = e.device_id
        /\ log[n].access_token = e.token}

\* C17: delete_access_tokens_for_user and delete_access_token remove the tokens
\* from the store first; each on_logged_out call is made by a provider that
\* has the callback, for a token already removed; and when the operation
\* returns, every provider with on_logged_out has been called exactly once for
\* each removed token with its user id, device id and token value, and no
\* other call has been made.
C17_LoggedOutOncePerToken ==
    [][LET c == calls["p1"]
           d == calls'["p1"]
       IN  /\ (c.pc = "idle" /\ d.pc = "on_logged_out" /\ d.req.op \in DeletionOps)
              => /\ Range(d.tokens_and_devices) =
                        tokens_and_devices_of(access_tokens,
                                              DOMAIN access_tokens \ DOMAIN access_tokens')
                 /\ Len(d.tokens_and_devices) = Cardinality(Range(d.tokens_and_devices))
                 /\ \A t \in DOMAIN access_tokens' : access_tokens'[t] = access_tokens[t]
                 /\ logged_out' = <<>>
           /\ (c.pc = "on_logged_out" /\ c.req.op \in DeletionOps)
              => /\ access_tokens' = access_tokens
                 /\ \/ logged_out' = logged_out
                    \/ /\ Len(logged_out') = Len(logged_out) + 1
                       /\ SubSeq(logged_out', 1, Len(logged_out)) = logged_out
                       /\ logged_out'[Len(logged_out')].provider \in Notified
                       /\ logged_out'[Len(logged_out')].access_token \notin DOMAIN access_tokens
           /\ (returned' # returned /\ returned'.op \in DeletionOps
               /\ returned'.kind = "return")
              => /\ c.pc = "on_logged_out"
                 /\ returned'.tokens_and_devices = c.tokens_and_devices
                 /\ \A k \in Notified : \A e \in Range(c.tokens_and_devices) :
                       Cardinality(CallsFor(logged_out', k, e)) = 1
                 /\ Len(logged_out') = Cardinality(Notified) * Len(c.tokens_and_devices)
      ]_vars

C17_Witness ==
    /\ returned.op = "delete_access_tokens_for_user"
    /\ returned.kind = "return"
    /\ Len(returned.tokens_and_devices) >= 2
    /\ Cardinality(Notified) >= 2
    /\ Cardinality(Notified) < Len(password_providers)
    /\ Len(logged_out) = 2 * Len(returned.tokens_and_devices)

UnknownUserError == SynapseErrorWith(404, "Unknown user", NOT_FOUND)

\* C18: when store.user_set_password_hash fails, set_password fails at once:
\* with the 404 'Unknown user' M_NOT_FOUND error when the store reported 404,
\* with the store's own error otherwise; no access token is deleted, no pusher
\* removed and no provider notified.
C18_SetPasswordStoreErrors ==
    [][(calls["p1"].pc = "idle" /\ returned' # returned /\ returned'.op = "set_password")
       => LET e == user_set_password_hash_error(users, returned'.req.user_id, TRUE)[1]
          IN  /\ returned'.kind = "raise"
              /\ returned'.value = IF e.code = 404 THEN UnknownUserError ELSE e
              /\ (returned'.value = UnknownUserError) <=> ~Has(users, returned'.req.user_id)
              /\ access_tokens' = access_tokens
              /\ pushers' = pushers
              /\ users' = users
              /\ logged_out' = <<>>
      ]_vars

C18_Witness ==
    /\ returned.op = "set_password"
    /\ returned.kind = "raise"
    /\ returned.value = UnknownUserError
    /\ \E t \in DOMAIN access_tokens : access_tokens[t].user_id = ALICE
    /\ pushers # {}

\* The server-side data of the live session session_id in store (c, h).
ServerDataIn(c, h, session_id) ==
    setdefault_serverdict(h[c[session_id].value]).serverdict

ServerData(session_id) == ServerDataIn(sessions, heap, session_id)

Live(session_id) == CacheContains(sessions, session_id, now)

DataCall(op) == returned # NoResult /\ returned.op = op

\* C19: on a live session, get_session_data returns what the session's
\* server-side data holds under the key, or the default when it holds
\* nothing; set_session_data stores its value under its key and leaves the
\* other keys alone; and every other step (check_auth, add_oob_auth and their
\* checkers' answers included) leaves the data of every session as it is
\* while that session stays the live one of its id.
C19_SessionDataKept ==
    [][/\ \A sid \in SessionIds \cup {FORGED} :
            (Live(sid) /\ CacheContains(sessions', sid, now')
             /\ sessions'[sid].value = sessions[sid].value)
            => IF returned = NoResult /\ DataCall("set_session_data")'
                  /\ returned'.req.session_id = sid
               THEN ServerDataIn(sessions', heap', sid) =
                        Put(ServerData(sid), returned'.req.key, returned'.req.value)
               ELSE ServerDataIn(sessions', heap', sid) = ServerData(sid)
       /\ (returned = NoResult /\ DataCall("get_session_data")'
           /\ Live(returned'.req.session_id))
          => /\ CacheContains(sessions', returned'.req.session_id, now')
             /\ returned'.kind = "return"
             /\ returned'.value =
                   IF Has(ServerData(returned'.req.session_id), returned'.req.key)
                   THEN ServerData(returned'.req.session_id)[returned'.req.key]
                   ELSE returned'.req.default
       /\ (returned = NoResult /\ DataCall("set_session_data")'
           /\ Live(returned'.req.session_id))
          => /\ CacheContains(sessions', returned'.req.session_id, now')
             /\ returned'.kind = "return"
      ]_vars

\* A value stored by set_session_data is returned by get_session_data after
\* the client completed the session's stage in between.
C19_Witness ==
    /\ DataCall("get_session_data")
    /\ returned.value \in DataValues
    /\ Live(returned.req.session_id)
    /\ Has(heap[sessions[returned.req.session_id].value], "creds")
    /\ DOMAIN ServerData(returned.req.session_id) = DataKeys

\* The last result is an incomplete response of check_auth.
IncompleteResponse == CheckAuthReturned /\ ~returned.value.authed

\* C21 (as stated): in every incomplete response of check_auth the
\* 'completed' field is present if and only if at least one stage is recorded
\* in the session, and when present it lists exactly the stage types of the
\* session's credentials.
C21_CompletedIffStageRecorded ==
    IncompleteResponse =>
        /\ Has(returned.value.result, "completed") <=> RecordedStages # {}
        /\ Has(returned.value.result, "completed")
              => returned.value.result.completed = RecordedStages

\* C21 (amended): in every incomplete response of check_auth the 'completed'
\* field is present if and only if the request carried a non-empty auth
\* block; when present it lists exactly the stage types of the session's
\* credentials, none when no stage is recorded; when absent, no stage is
\* recorded in the session.
C21_CompletedIffAuthPresented ==
    IncompleteResponse =>
        /\ Has(returned.value.result, "completed")
              <=> DOMAIN AuthBlock(returned.req.clientdict) # {}
        /\ Has(returned.value.result, "completed")
              => returned.value.result.completed = RecordedStages
        /\ ~Has(returned.value.result, "completed")
              => /\ returned.value.session_id \in DOMAIN sessions
                 /\ RecordedStages = {}

\* C21 witness: a stage that failed on a session without recorded stages is
\* answered with an empty 'completed' list and the failure's error fields.
C21_Witness ==
    /\ IncompleteResponse
    /\ Has(returned.value.result, "completed")
    /\ returned.value.result.completed = {}
    /\ Has(returned.value.result, "errcode")
    /\ returned.value.session_id \in DOMAIN sessions

\* The caveats that follow 'type = <purpose>' in a token issued as m.
CaveatsAfterType(m) ==
    CASE m.type = "access" -> << <<"nonce", m.nonce>> >> \o m.extra_caveats
      [] m.type = "login" -> << <<"time <", m.expiry>> >>
      [] OTHER -> <<>>

\* C22: the caveat list of every token issued is 'gen = 1', 'user_id = <id>',
\* 'type = <purpose>', and then: for an access token the nonce caveat and the
\* caller's extra caveats in the order given, for a login token the one
\* 'time < deadline' caveat, for a delete_pusher token nothing.
C22_CaveatOrder ==
    \A m \in minted :
        /\ IsSerialized(m.token)
        /\ deserialize(m.token).caveats =
              << <<"gen", "1">>, <<"user_id", m.user_id>>, <<"type", m.type>> >>
                 \o CaveatsAfterType(m)

C22_Witness ==
    /\ {m.type : m \in minted} = {"access", "login", "delete_pusher"}
    /\ \E m \in minted : m.type = "access" /\ Len(m.extra_caveats) = 2

\* C23: when a provider's on_logged_out fails during delete_access_token or
\* delete_access_tokens_for_user, the removed tokens stay removed and, when
\* the operation ends, every other provider that has on_logged_out has been
\* called for every removed token.
C23_FailureNotifiesTheRest ==
    [][LET c == calls["p1"]
       IN  (c.pc = "on_logged_out" /\ returned = NoResult /\ returned'.kind = "raise"
            /\ returned'.op \in DeletionOps)
           => /\ \A e \in Range(c.tokens_and_devices) : e.token \notin DOMAIN access_tokens'
              /\ \A k \in Notified \ {next_provider(c.i)} :
                    \A e \in Range(c.tokens_and_devices) :
                        Cardinality(CallsFor(logged_out', k, e)) = 1
      ]_vars

\* The last result is a validate_login for a password submission.
PasswordLoginEnded == LoginEnded /\ SubmittedType = PASSWORD

\* C24 (as stated): in a validate_login for a password submission, the
\* password check of every provider that has one is consulted before the
\* check_auth of any provider is invoked.
C24_PasswordChecksBeforeAnyCheckAuth ==
    PasswordLoginEnded =>
        LET c == returned.consulted
        IN  \A j \in DOMAIN c :
                c[j][2] = "check_auth" =>
                    \A i \in DOMAIN password_providers :
                        Has(password_providers[i], "check_password") =>
                            \E k \in 1..(j - 1) : c[k] = <<i, "check_password">>

\* C24 (amended): in a validate_login for a password submission the
\* providers are taken one at a time in list order; when a provider's
\* check_auth is invoked, that provider's own password check, if it has one,
\* and every consultation of the providers before it have already happened,
\* and no provider after it has been consulted yet.
C24_EachProviderPasswordThenCheckAuth ==
    PasswordLoginEnded =>
        LET c == returned.consulted
        IN  \A j \in DOMAIN c :
                c[j][2] = "check_auth" =>
                    /\ \A i \in 1..c[j][1] :
                          Has(password_providers[i], "check_password") =>
                              \E k \in 1..(j - 1) : c[k] = <<i, "check_password">>
                    /\ \A k \in 1..(j - 1) : c[k][1] <= c[j][1]
                    /\ \A k \in (j + 1)..Len(c) : c[k][1] > c[j][1]

\* C24 witness: the second provider's password check came after the first
\* provider's check_auth.
C24_Witness ==
    /\ PasswordLoginEnded
    /\ \E j, k \in DOMAIN returned.consulted :
          /\ j < k
          /\ returned.consulted[j] = <<1, "check_auth">>
          /\ returned.consulted[k] = <<2, "check_password">>
    /\ Has(password_providers[1], "check_password")

\* deactivate_account(user_id) has completed: its last step has stored no
\* password hash for the user.
Deactivated(user_id) == Has(users, user_id) /\ users[user_id] = <<>>

\* C25: once deactivate_account(user) has completed, the store holds no
\* access token of that user, whatever a password login of that user that
\* ran beside the deactivation did.
C25_NoTokenOnceDeactivated ==
    \A user_id \in DOMAIN users :
        Deactivated(user_id) =>
            \A t \in DOMAIN access_tokens : access_tokens[t].user_id # user_id

\* The checker of the stage a check_auth request presents succeeds: the
\* dummy stage, or the password stage with the user's password.
Succeeds(req) ==
    \/ StageOf(req) = DUMMY
    \/ /\ StageOf(req) = PASSWORD
       /\ Has(AuthBlock(req.clientdict), "user")
       /\ Has(AuthBlock(req.clientdict), "password")
       /\ _check_local_password(AuthBlock(req.clientdict).user,
                                AuthBlock(req.clientdict).password) # None

\* The request waiting in slot p overlaps the check_auth request whose
\* result is the last one returned, both are on the session of the same id,
\* which has been live ever since it was created, and both checkers succeed
\* for different stage types.
OverlapsLastReturned(p) ==
    /\ calls[p].pc = "checker"
    /\ calls[p].req.op = "check_auth"
    /\ CheckAuthReturned
    /\ Succeeds(returned.req)
    /\ Succeeds(calls[p].req)
    /\ StageOf(returned.req) # StageOf(calls[p].req)
    /\ now < SESSION_EXPIRE_MS
    /\ heap[calls[p].session].id = returned.value.session_id

\* The stage types a check_auth result lists as done.
ListedStages(v) == IF v.authed THEN Keys(v.result) ELSE v.result.completed

\* The stage types recorded in the session stored under session_id in (c, h).
StoredStages(c, h, session_id) == Keys(CredsOf(h[c[session_id].value]))

\* C26: when two check_auth calls overlap on the same live session and both
\* checkers succeed for different stage types, the call that returns first
\* has its stage recorded in the stored session while the other still waits,
\* and when the other returns the stored session's credentials hold both
\* stage types and its response lists both; no step of either call removes a
\* recorded stage.
C26_OverlappingResultsKept ==
    [][/\ \A p \in Procs :
            (OverlapsLastReturned(p) /\ calls'[p].pc = "idle")
            => LET sid == returned.value.session_id
                   both == {StageOf(returned.req), StageOf(calls[p].req)}
               IN  /\ CacheContains(sessions, sid, now)
                   /\ StageOf(returned.req) \in StoredStages(sessions, heap, sid)
                   /\ returned'.kind = "return"
                   /\ returned'.value.session_id = sid
                   /\ CacheContains(sessions', sid, now')
                   /\ both \subseteq StoredStages(sessions', heap', sid)
                   /\ both \subseteq ListedStages(returned'.value)
       /\ \A sid \in DOMAIN sessions \cap DOMAIN sessions' :
            now < SESSION_EXPIRE_MS =>
                StoredStages(sessions, heap, sid) \subseteq StoredStages(sessions', heap', sid)
      ]_vars

\* C26 witness: the dummy stage of one call has been recorded and returned
\* while the other call, begun before, still waits for the password checker
\* on the same session.
C26_Witness ==
    /\ OverlapsLastReturned("p2")
    /\ StageOf(returned.req) = DUMMY
    /\ StoredStages(sessions, heap, returned.value.session_id) = {DUMMY}
    /\ PresentedSid(calls["p2"].req) = returned.value.session_id
    /\ now > 0

\* The session id a request presents.
SidOf(req) ==
    IF req.op \in {"set_session_data", "get_session_data"} THEN req.session_id
    ELSE PresentedSid(req)

\* C27: a step in which check_auth, add_oob_auth, set_session_data or
\* get_session_data begins with a session id that names no live session
\* stores no session under that id unless the server's generator drew it:
\* every session created in the step has an id the generation loop can end
\* with and is stored under it, and every id newly in the store is either
\* such an id or the id of a session a waiting request re-saves. The id only
\* a client makes up is never the key of the store nor the id of a session.
C27_PresentedIdNeverAdopted ==
    [][/\ \A ref \in DOMAIN heap' \ DOMAIN heap :
            /\ heap'[ref].id \in fresh_session_ids(sessions, now)
            /\ heap'[ref].id \in DOMAIN sessions'
            /\ sessions'[heap'[ref].id].value = ref
       /\ \A sid \in DOMAIN sessions' \ DOMAIN sessions :
            /\ heap'[sessions'[sid].value].id = sid
            /\ \/ sid \in fresh_session_ids(sessions, now)
               \/ \E p \in Procs : calls[p].pc # "idle" /\ calls[p].session = sessions'[sid].value
       /\ (returned = NoResult /\ (\E p \in Procs : calls'[p].pc # "idle" /\ calls[p].pc = "idle"))
          => \A p \in Procs :
                (calls'[p].pc # "idle" /\ calls[p].pc = "idle"
                 /\ ~Live(SidOf(calls'[p].req)))
                => /\ calls'[p].session \notin DOMAIN heap
                   /\ heap'[calls'[p].session].id \in fresh_session_ids(sessions, now)
       /\ (returned = NoResult /\ returned'.op \in {"set_session_data", "get_session_data"}
           /\ ~Live(returned'.req.session_id))
          => /\ DOMAIN heap' \ DOMAIN heap # {}
             /\ returned'.req.session_id \in DOMAIN sessions'
                    => returned'.req.session_id \in fresh_session_ids(sessions, now)
       /\ FORGED \notin DOMAIN sessions'
       /\ \A ref \in DOMAIN heap' : heap'[ref].id # FORGED
      ]_vars

\* C27 witness: set_session_data called with the made-up id has stored its
\* value in a session created under a generated id.
C27_Witness ==
    /\ returned.op = "set_session_data"
    /\ returned.req.session_id = FORGED
    /\ FORGED \notin DOMAIN sessions
    /\ \E sid \in SessionIds :
        /\ Live(sid)
        /\ DOMAIN heap[sessions[sid].value] = {"id", "serverdict", "last_used"}
        /\ ServerData(sid) = (returned.req.key :> returned.req.value)

====
